---- MODULE Spec2Model ----
(***************************************************************************)
(* Case-management data store: the five operational tables and the        *)
(* profiles table of the schema migration, their check constraints,       *)
(* foreign keys and row-level policies, and the entity pages that issue   *)
(* insert / update-by-id / delete-by-id statements against them.          *)
(***************************************************************************)
EXTENDS Integers, FiniteSets, Sequences, TLC

\* ---------------------------------------------------------------- bounds
MaxAccounts == 2
\* rows each table holds at a time
MaxOfficers == 1
MaxCases == 1
MaxSuspects == 1
MaxEvidence == 1
MaxLabReports == 1
\* rows ever inserted into the five tables together
MaxInserts == 3
\* the last value of the store's clock
MaxTime == 1

\* ------------------------------------------------------- value encodings
\* SQL NULL and "key not present in the request body", for text columns
Null == "NULL"
Absent == "ABSENT"
\* the same two for uuid columns; auth.uid() of an anonymous requester is NULL
NullId == 0
AbsentId == 0 - 1
NoUser == NullId
\* a uuid that no row of any table carries
MissingId == 99
\* the empty string '' in a form field that holds a uuid
EmptyId == 0 - 2

Accounts == 1..MaxAccounts

Tables == {"officers", "cases", "suspects", "evidence", "lab_reports"}

VARIABLES
  users,        \* auth.users: account id -> [full_name: signup metadata]
  profiles,     \* public.profiles: row id -> row
  officers,     \* public.officers: row id -> row
  cases,        \* public.cases
  suspects,     \* public.suspects
  evidence,     \* public.evidence
  lab_reports,  \* public.lab_reports
  nextId,       \* gen_random_uuid(): per table, the next unused row id
  creator,      \* history: per table, row id -> auth.uid() of the insert that created it
  now,          \* the store's clock, now()
  stamps,       \* per table, row id -> [updated_at]: the timestamp column of the row
  last,         \* the last statement sent to the store and its response
  page          \* the entity page open in the browser

storeVars == <<users, profiles, officers, cases, suspects, evidence, lab_reports, nextId, creator, now, stamps>>
vars == <<users, profiles, officers, cases, suspects, evidence, lab_reports, nextId, creator, now, stamps, last, page>>

\* ------------------------------------------------------ columns per table
IdCols == {"user_id", "case_id", "evidence_id", "lead_officer_id"}

officers_columns == {"user_id", "rank"}
cases_columns == {"user_id", "title", "description", "status", "priority", "lead_officer_id"}
suspects_columns == {"user_id", "case_id", "status"}
evidence_columns == {"user_id", "case_id", "type", "status"}
lab_reports_columns == {"user_id", "evidence_id", "status"}

Columns(t) ==
  CASE t = "officers" -> officers_columns
    [] t = "cases" -> cases_columns
    [] t = "suspects" -> suspects_columns
    [] t = "evidence" -> evidence_columns
    [] t = "lab_reports" -> lab_reports_columns

\* DEFAULT clauses; a column without one defaults to NULL
officers_defaults == [user_id |-> NullId, rank |-> Null]
cases_defaults_without_priority ==
  [user_id |-> NullId, title |-> Null, description |-> Null, status |-> "open", priority |-> Null, lead_officer_id |-> NullId]
cases_defaults ==
  [user_id |-> NullId, title |-> Null, description |-> Null, status |-> "open", priority |-> "medium",
   lead_officer_id |-> NullId]
suspects_defaults == [user_id |-> NullId, case_id |-> NullId, status |-> "suspect"]
evidence_defaults == [user_id |-> NullId, case_id |-> NullId, type |-> Null, status |-> "in_storage"]
lab_reports_defaults == [user_id |-> NullId, evidence_id |-> NullId, status |-> "pending"]

Defaults(t) ==
  CASE t = "officers" -> officers_defaults
    [] t = "cases" -> cases_defaults
    [] t = "suspects" -> suspects_defaults
    [] t = "evidence" -> evidence_defaults
    [] t = "lab_reports" -> lab_reports_defaults

\* NOT NULL columns
officers_not_null == {"user_id", "rank"}
cases_not_null == {"user_id", "title", "status"}
suspects_not_null == {"user_id", "case_id"}
evidence_not_null == {"user_id", "case_id", "type"}
lab_reports_not_null == {"user_id", "evidence_id"}

NotNullCols(t) ==
  CASE t = "officers" -> officers_not_null
    [] t = "cases" -> cases_not_null
    [] t = "suspects" -> suspects_not_null
    [] t = "evidence" -> evidence_not_null
    [] t = "lab_reports" -> lab_reports_not_null

IsNull(c, v) == IF c \in IdCols THEN v = NullId ELSE v = Null
IsAbsent(c, v) == IF c \in IdCols THEN v = AbsentId ELSE v = Absent

\* ------------------------------------------------------ CHECK constraints
\* A CHECK passes when its expression is TRUE or NULL.
cases_status_domain == {"open", "closed", "pending", "under_investigation"}
cases_priority_domain == {"low", "medium", "high", "critical"}
suspects_status_domain == {"suspect", "person_of_interest", "cleared", "arrested"}
evidence_type_domain == {"physical", "digital", "documentary", "testimonial", "biological", "trace"}
evidence_status_domain == {"in_storage", "in_lab", "released", "disposed"}
lab_reports_status_domain == {"pending", "in_progress", "completed", "inconclusive"}

cases_status_check(v) == v = Null \/ v \in cases_status_domain
cases_priority_check(v) == v = Null \/ v \in cases_priority_domain
suspects_status_check(v) == v = Null \/ v \in suspects_status_domain
evidence_type_check(v) == v = Null \/ v \in evidence_type_domain
evidence_status_check(v) == v = Null \/ v \in evidence_status_domain
lab_reports_status_check(v) == v = Null \/ v \in lab_reports_status_domain

ChecksHold(t, row) ==
  CASE t = "officers" -> TRUE
    [] t = "cases" -> cases_status_check(row.status) /\ cases_priority_check(row.priority)
    [] t = "suspects" -> suspects_status_check(row.status)
    [] t = "evidence" -> evidence_type_check(row.type) /\ evidence_status_check(row.status)
    [] t = "lab_reports" -> lab_reports_status_check(row.status)

\* ----------------------------------------------------- row-level policies
\* A policy expression admits a row only when it evaluates to TRUE;
\* auth.uid() = user_id is NULL, hence not TRUE, when either side is NULL.
officers_select_policy(uid, row) == uid # NoUser
officers_insert_policy_authenticated(uid, row) == uid # NoUser

officers_insert_policy(uid, row) == uid # NoUser /\ row.user_id # NullId /\ uid = row.user_id
officers_update_policy(uid, row) == uid # NoUser /\ row.user_id # NullId /\ uid = row.user_id
officers_delete_policy(uid, row) == uid # NoUser /\ row.user_id # NullId /\ uid = row.user_id

cases_select_policy_own_rows(uid, row) == uid # NoUser /\ uid = row.user_id

cases_select_policy(uid, row) == uid # NoUser
cases_insert_policy_any_owner(uid, row) == uid # NoUser /\ row.user_id # NullId

cases_insert_policy(uid, row) == uid # NoUser /\ row.user_id # NullId /\ uid = row.user_id
cases_update_policy_any_account(uid, row) == uid # NoUser

cases_update_policy(uid, row) == uid # NoUser /\ row.user_id # NullId /\ uid = row.user_id
cases_delete_policy(uid, row) == uid # NoUser /\ row.user_id # NullId /\ uid = row.user_id

suspects_select_policy(uid, row) == uid # NoUser
suspects_insert_policy(uid, row) == uid # NoUser /\ row.user_id # NullId /\ uid = row.user_id
suspects_update_policy(uid, row) == uid # NoUser /\ row.user_id # NullId /\ uid = row.user_id
suspects_delete_policy_any_account(uid, row) == uid # NoUser

suspects_delete_policy(uid, row) == uid # NoUser /\ row.user_id # NullId /\ uid = row.user_id

evidence_select_policy(uid, row) == uid # NoUser
evidence_insert_policy(uid, row) == uid # NoUser /\ row.user_id # NullId /\ uid = row.user_id
evidence_update_policy(uid, row) == uid # NoUser /\ row.user_id # NullId /\ uid = row.user_id
evidence_delete_policy(uid, row) == uid # NoUser /\ row.user_id # NullId /\ uid = row.user_id

lab_reports_select_policy(uid, row) == uid # NoUser
lab_reports_insert_policy(uid, row) == uid # NoUser /\ row.user_id # NullId /\ uid = row.user_id
lab_reports_update_policy(uid, row) == uid # NoUser /\ row.user_id # NullId /\ uid = row.user_id
lab_reports_delete_policy(uid, row) == uid # NoUser /\ row.user_id # NullId /\ uid = row.user_id

profiles_select_policy(uid, row) == uid # NoUser /\ uid = row.user_id
profiles_update_policy(uid, row) == uid # NoUser /\ row.user_id # NullId /\ uid = row.user_id
profiles_insert_policy(uid, row) == uid # NoUser /\ row.user_id # NullId /\ uid = row.user_id

SelectPolicy(t, uid, row) ==
  CASE t = "officers" -> officers_select_policy(uid, row)
    [] t = "cases" -> cases_select_policy(uid, row)
    [] t = "suspects" -> suspects_select_policy(uid, row)
    [] t = "evidence" -> evidence_select_policy(uid, row)
    [] t = "lab_reports" -> lab_reports_select_policy(uid, row)

InsertPolicy(t, uid, row) ==
  CASE t = "officers" -> officers_insert_policy(uid, row)
    [] t = "cases" -> cases_insert_policy(uid, row)
    [] t = "suspects" -> suspects_insert_policy(uid, row)
    [] t = "evidence" -> evidence_insert_policy(uid, row)
    [] t = "lab_reports" -> lab_reports_insert_policy(uid, row)

UpdatePolicy(t, uid, row) ==
  CASE t = "officers" -> officers_update_policy(uid, row)
    [] t = "cases" -> cases_update_policy(uid, row)
    [] t = "suspects" -> suspects_update_policy(uid, row)
    [] t = "evidence" -> evidence_update_policy(uid, row)
    [] t = "lab_reports" -> lab_reports_update_policy(uid, row)

DeletePolicy(t, uid, row) ==
  CASE t = "officers" -> officers_delete_policy(uid, row)
    [] t = "cases" -> cases_delete_policy(uid, row)
    [] t = "suspects" -> suspects_delete_policy(uid, row)
    [] t = "evidence" -> evidence_delete_policy(uid, row)
    [] t = "lab_reports" -> lab_reports_delete_policy(uid, row)

\* ----------------------------------------------------------- foreign keys
Restrict(f, D) == [x \in D |-> f[x]]

\* the five operational tables as one value
Store == [officers |-> officers, cases |-> cases, suspects |-> suspects,
          evidence |-> evidence, lab_reports |-> lab_reports]

\* user_id REFERENCES auth.users(id)
user_id_fk(U, row) == row.user_id \in DOMAIN U
\* cases.lead_officer_id REFERENCES officers(id); a NULL reference is not checked
cases_lead_officer_id_fk(S, row) == row.lead_officer_id = NullId \/ row.lead_officer_id \in DOMAIN S.officers
suspects_case_id_fk(S, row) == row.case_id \in DOMAIN S.cases
evidence_case_id_fk_unchecked(S, row) == TRUE

evidence_case_id_fk(S, row) == row.case_id \in DOMAIN S.cases
lab_reports_evidence_id_fk(S, row) == row.evidence_id \in DOMAIN S.evidence

ForeignKeysHold(S, U, t, row) ==
  /\ user_id_fk(U, row)
  /\ CASE t = "officers" -> TRUE
       [] t = "cases" -> cases_lead_officer_id_fk(S, row)
       [] t = "suspects" -> suspects_case_id_fk(S, row)
       [] t = "evidence" -> evidence_case_id_fk(S, row)
       [] t = "lab_reports" -> lab_reports_evidence_id_fk(S, row)

\* Referential actions.  They run inside the deleting statement and are not
\* subject to the row-level policies of the referencing table.
cases_lead_officer_id_on_delete_cascade(S, gone) ==
  Restrict(S.cases, {i \in DOMAIN S.cases : S.cases[i].lead_officer_id \notin gone})

\* cases.lead_officer_id ON DELETE SET NULL
cases_lead_officer_id_on_delete(S, gone) ==
  [i \in DOMAIN S.cases |->
     IF S.cases[i].lead_officer_id \in gone
     THEN [S.cases[i] EXCEPT !.lead_officer_id = NullId]
     ELSE S.cases[i]]
\* suspects.case_id ON DELETE CASCADE
suspects_case_id_on_delete(S, gone) ==
  Restrict(S.suspects, {i \in DOMAIN S.suspects : S.suspects[i].case_id \notin gone})
evidence_case_id_on_delete_no_action(S, gone) == S.evidence

\* evidence.case_id ON DELETE CASCADE
evidence_case_id_on_delete(S, gone) ==
  Restrict(S.evidence, {i \in DOMAIN S.evidence : S.evidence[i].case_id \notin gone})
lab_reports_evidence_id_on_delete_no_action(S, gone) == S.lab_reports

\* lab_reports.evidence_id ON DELETE CASCADE
lab_reports_evidence_id_on_delete(S, gone) ==
  Restrict(S.lab_reports, {i \in DOMAIN S.lab_reports : S.lab_reports[i].evidence_id \notin gone})

\* remove the rows `gone` of table t and apply the referential actions
DeleteRows(S, t, gone) ==
  CASE t = "officers" ->
         [S EXCEPT !.officers = Restrict(S.officers, DOMAIN S.officers \ gone),
                   !.cases = cases_lead_officer_id_on_delete(S, gone)]
    [] t = "cases" ->
         LET ev == evidence_case_id_on_delete(S, gone)
             evGone == DOMAIN S.evidence \ DOMAIN ev
         IN [S EXCEPT !.cases = Restrict(S.cases, DOMAIN S.cases \ gone),
                      !.suspects = suspects_case_id_on_delete(S, gone),
                      !.evidence = ev,
                      !.lab_reports = lab_reports_evidence_id_on_delete(S, evGone)]
    [] t = "evidence" ->
         [S EXCEPT !.evidence = Restrict(S.evidence, DOMAIN S.evidence \ gone),
                   !.lab_reports = lab_reports_evidence_id_on_delete(S, gone)]
    [] t = "suspects" ->
         [S EXCEPT !.suspects = Restrict(S.suspects, DOMAIN S.suspects \ gone)]
    [] t = "lab_reports" ->
         [S EXCEPT !.lab_reports = Restrict(S.lab_reports, DOMAIN S.lab_reports \ gone)]

\* ------------------------------------------------------------ statements
\* Every statement answers [store, outcome, count]: the tables after it, "ok"
\* or the kind of error, and the number of rows it affected.  A statement
\* that fails leaves the tables as they were.
ConstraintOutcome(S, U, t, row) ==
  IF \E c \in NotNullCols(t) : IsNull(c, row[c]) THEN "not_null_violation"
  ELSE IF ~ChecksHold(t, row) THEN "check_violation"
  ELSE IF ~ForeignKeysHold(S, U, t, row) THEN "fk_violation"
  ELSE "ok"

\* supabase.from(t).insert([p]) as uid: defaults fill the absent columns, the
\* INSERT policy's WITH CHECK is applied to the new row, then the constraints.
ExecInsert(S, U, uid, t, p, newId) ==
  LET row == [c \in Columns(t) |-> IF IsAbsent(c, p[c]) THEN Defaults(t)[c] ELSE p[c]]
      outcome == IF ~InsertPolicy(t, uid, row) THEN "rls_violation"
                 ELSE ConstraintOutcome(S, U, t, row)
  IN IF outcome = "ok"
     THEN [store |-> [S EXCEPT ![t] = (newId :> row) @@ S[t]], outcome |-> "ok", count |-> 1]
     ELSE [store |-> S, outcome |-> outcome, count |-> 0]

\* the rows of t that a statement of uid filtered by id can see and may update
UpdatableRows(S, uid, t, id) ==
  {i \in DOMAIN S[t] : i = id /\ SelectPolicy(t, uid, S[t][i]) /\ UpdatePolicy(t, uid, S[t][i])}

\* supabase.from(t).update(p).eq('id', id) as uid: rows the UPDATE policy's USING
\* does not admit are skipped without error; an UPDATE policy without WITH CHECK
\* applies its USING expression to the new row as well.
ExecUpdate(S, U, uid, t, id, p) ==
  IF UpdatableRows(S, uid, t, id) = {}
  THEN [store |-> S, outcome |-> "ok", count |-> 0]
  ELSE LET old == S[t][id]
           new == [c \in Columns(t) |-> IF IsAbsent(c, p[c]) THEN old[c] ELSE p[c]]
           outcome == IF ~UpdatePolicy(t, uid, new) THEN "rls_violation"
                      ELSE ConstraintOutcome(S, U, t, new)
       IN IF outcome = "ok"
          THEN [store |-> [S EXCEPT ![t][id] = new], outcome |-> "ok", count |-> 1]
          ELSE [store |-> S, outcome |-> outcome, count |-> 0]

\* the rows of t that a statement of uid filtered by id can see and may delete
DeletableRows(S, uid, t, id) ==
  {i \in DOMAIN S[t] : i = id /\ SelectPolicy(t, uid, S[t][i]) /\ DeletePolicy(t, uid, S[t][i])}

\* supabase.from(t).delete().eq('id', id) as uid
ExecDelete(S, uid, t, id) ==
  LET gone == DeletableRows(S, uid, t, id)
  IN [store |-> DeleteRows(S, t, gone), outcome |-> "ok", count |-> Cardinality(gone)]

\* supabase.from(t).select('*') as uid: the rows the SELECT policy admits
Select(S, uid, t) == Restrict(S[t], {i \in DOMAIN S[t] : SelectPolicy(t, uid, S[t][i])})
\* a read of profiles as uid
SelectProfiles(P, uid) == Restrict(P, {i \in DOMAIN P : profiles_select_policy(uid, P[i])})

\* profiles: DEFAULT clauses, user_id NOT NULL UNIQUE REFERENCES auth.users(id)
profiles_defaults == [user_id |-> NullId, full_name |-> Null, role |-> "investigator"]
profiles_user_id_unique_unchecked(P, self, row) == TRUE

profiles_user_id_unique(P, self, row) == \A i \in DOMAIN P \ self : P[i].user_id # row.user_id

ProfileOutcome(P, U, self, row) ==
  IF row.user_id = NullId THEN "not_null_violation"
  ELSE IF ~profiles_user_id_unique(P, self, row) THEN "unique_violation"
  ELSE IF ~user_id_fk(U, row) THEN "fk_violation"
  ELSE "ok"

\* supabase.from('profiles').insert([p]) as uid
ExecProfileInsert(P, U, uid, p, newId) ==
  LET row == [c \in DOMAIN profiles_defaults |-> IF IsAbsent(c, p[c]) THEN profiles_defaults[c] ELSE p[c]]
      outcome == IF ~profiles_insert_policy(uid, row) THEN "rls_violation"
                 ELSE ProfileOutcome(P, U, {}, row)
  IN IF outcome = "ok"
     THEN [store |-> (newId :> row) @@ P, outcome |-> "ok", count |-> 1]
     ELSE [store |-> P, outcome |-> outcome, count |-> 0]

\* supabase.from('profiles').update(p).eq('id', id) as uid
ExecProfileUpdate(P, U, uid, id, p) ==
  IF {i \in DOMAIN P : i = id /\ profiles_select_policy(uid, P[i]) /\ profiles_update_policy(uid, P[i])} = {}
  THEN [store |-> P, outcome |-> "ok", count |-> 0]
  ELSE LET new == [c \in DOMAIN profiles_defaults |-> IF IsAbsent(c, p[c]) THEN P[id][c] ELSE p[c]]
           outcome == IF ~profiles_update_policy(uid, new) THEN "rls_violation"
                      ELSE ProfileOutcome(P, U, {id}, new)
       IN IF outcome = "ok"
          THEN [store |-> [P EXCEPT ![id] = new], outcome |-> "ok", count |-> 1]
          ELSE [store |-> P, outcome |-> outcome, count |-> 0]

\* ------------------------------------------------------ account creation
\* raw_user_meta_data->>'full_name': NULL when the key is not there
MetaFullName(meta) == IF meta.full_name = Absent THEN Null ELSE meta.full_name

handle_new_user_without_name(newUserId, meta) ==
  [user_id |-> newUserId, full_name |-> Null, role |-> "investigator"]

\* handle_new_user(): the profile row inserted for the auth.users row NEW
handle_new_user(newUserId, meta) ==
  [user_id |-> newUserId, full_name |-> MetaFullName(meta), role |-> "investigator"]

\* ----------------------------------------------------------------- inputs
\* signup metadata: one name for the accounts that work on the five tables,
\* more of them where the profiles are what is looked at
FullNameInputs == {"Ann"}
ProfileFullNameInputs == {"Ann", "Bob", Absent}
UserIdInputs == {AbsentId} \cup DOMAIN users
Requesters == {NoUser} \cup DOMAIN users

MaxRows(t) ==
  CASE t = "officers" -> MaxOfficers
    [] t = "cases" -> MaxCases
    [] t = "suspects" -> MaxSuspects
    [] t = "evidence" -> MaxEvidence
    [] t = "lab_reports" -> MaxLabReports

\* the number of rows inserted so far
Inserted == (nextId["officers"] - 1) + (nextId["cases"] - 1) + (nextId["suspects"] - 1)
            + (nextId["evidence"] - 1) + (nextId["lab_reports"] - 1)

\* reference inputs: not given, a row that does not exist, or an existing row
RefInputs(T) == {AbsentId, MissingId} \cup DOMAIN T

\* Request bodies of the REST interface.  FieldInputs(t) vary the references
\* and keep every enumerated field inside its domain; a column that is Absent
\* is not part of the body.
FieldInputs(t) ==
  CASE t = "officers" ->
         {[user_id |-> AbsentId, rank |-> r] : r \in {"Detective", "Chief"}}
    [] t = "cases" ->
         {[user_id |-> AbsentId, title |-> "Burglary", description |-> Absent, status |-> s, priority |-> Absent, lead_officer_id |-> o] :
            s \in {"open", "closed"}, o \in RefInputs(officers)}
    [] t = "suspects" ->
         {[user_id |-> AbsentId, case_id |-> c, status |-> s] :
            c \in RefInputs(cases), s \in {"suspect", "cleared"}}
    [] t = "evidence" ->
         {[user_id |-> AbsentId, case_id |-> c, type |-> "physical", status |-> s] :
            c \in RefInputs(cases), s \in {"in_storage", "in_lab"}}
    [] t = "lab_reports" ->
         {[user_id |-> AbsentId, evidence_id |-> c, status |-> s] :
            c \in RefInputs(evidence), s \in {"pending", "completed"}}

\* one body with acceptable fields: the last row of the parent table, when
\* there is one, and the second value of the status column
Latest(T) == IF DOMAIN T = {} THEN MissingId ELSE CHOOSE i \in DOMAIN T : \A j \in DOMAIN T : j <= i
PlainFields(t) ==
  CASE t = "officers" -> [user_id |-> AbsentId, rank |-> "Chief"]
    [] t = "cases" -> [user_id |-> AbsentId, title |-> "Burglary", description |-> Absent, status |-> "closed", priority |-> Absent,
                       lead_officer_id |-> AbsentId]
    [] t = "suspects" -> [user_id |-> AbsentId, case_id |-> Latest(cases), status |-> "cleared"]
    [] t = "evidence" -> [user_id |-> AbsentId, case_id |-> Latest(cases), type |-> "physical", status |-> "in_lab"]
    [] t = "lab_reports" -> [user_id |-> AbsentId, evidence_id |-> Latest(evidence), status |-> "completed"]

\* Inserts: every pairing of requester and supplied user_id with the plain
\* fields, and every field input under the requester's own user_id.
InsertRequests(t) ==
  {[uid |-> uid, p |-> [PlainFields(t) EXCEPT !.user_id = u]] : uid \in Requesters, u \in UserIdInputs}
  \cup {[uid |-> uid, p |-> [f EXCEPT !.user_id = uid]] : uid \in DOMAIN users, f \in FieldInputs(t)}

\* Updates: every pairing of requester and supplied user_id with the plain
\* fields, and every field input with user_id left out of the body.
UpdateRequests(t) ==
  {[uid |-> uid, p |-> [PlainFields(t) EXCEPT !.user_id = u]] : uid \in Requesters, u \in UserIdInputs}
  \cup {[uid |-> uid, p |-> f] : uid \in DOMAIN users, f \in FieldInputs(t)}

\* ------------------------------------------------------------ timestamps
\* updated_at is kept beside the row, in stamps; a request body carries an
\* updated_at key only when its sender writes one.
AbsentTime == 0 - 1
SuppliedUpdatedAt(p) == IF "updated_at" \in DOMAIN p THEN p.updated_at ELSE AbsentTime

\* updated_at TIMESTAMP WITH TIME ZONE NOT NULL DEFAULT now(): an insert that
\* names the column stores the value it names
updated_at_default(p, clock) ==
  IF SuppliedUpdatedAt(p) = AbsentTime THEN clock ELSE SuppliedUpdatedAt(p)

\* update_updated_at_column(), run BEFORE UPDATE for each row: NEW.updated_at = now()
update_updated_at_column(new, clock) == [new EXCEPT !.updated_at = clock]

\* date_opened DATE NOT NULL DEFAULT CURRENT_DATE of cases, kept in stamps as
\* well; the clock counts days
SuppliedDateOpened(p) == IF "date_opened" \in DOMAIN p THEN p.date_opened ELSE AbsentTime
CURRENT_DATE(clock) == clock
date_opened_default(p, clock) ==
  IF SuppliedDateOpened(p) = AbsentTime THEN CURRENT_DATE(clock) ELSE SuppliedDateOpened(p)

\* created_at TIMESTAMP WITH TIME ZONE NOT NULL DEFAULT now(); no trigger
\* writes it
created_at_default(p, clock) == IF "created_at" \in DOMAIN p THEN p.created_at ELSE clock

\* date_closed DATE of cases and chain_of_custody TEXT of evidence, nullable
\* and without default, are kept in stamps as well: no form shows them
NullDate == 0 - 2
date_closed_default(p) == IF "date_closed" \in DOMAIN p THEN p.date_closed ELSE NullDate
chain_of_custody_default(p) == IF "chain_of_custody" \in DOMAIN p THEN p.chain_of_custody ELSE Null

\* the columns kept in stamps after an insert, an update-by-id and a delete
StampInsert(t, id, p, done) ==
  stamps' = IF done
               THEN [stamps EXCEPT ![t] =
                       (id :> IF t = "cases"
                              THEN [updated_at |-> updated_at_default(p, now),
                                    created_at |-> created_at_default(p, now),
                                    date_opened |-> date_opened_default(p, now),
                                    date_closed |-> date_closed_default(p)]
                              ELSE IF t = "evidence"
                              THEN [updated_at |-> updated_at_default(p, now),
                                    created_at |-> created_at_default(p, now),
                                    chain_of_custody |-> chain_of_custody_default(p)]
                              ELSE [updated_at |-> updated_at_default(p, now),
                                    created_at |-> created_at_default(p, now)]) @@ @]
               ELSE stamps

\* SET of an update: the columns the body names
StampSet(old, p) ==
  [c \in DOMAIN old |->
     IF c = "updated_at"
     THEN IF SuppliedUpdatedAt(p) = AbsentTime THEN old[c] ELSE SuppliedUpdatedAt(p)
     ELSE IF c = "date_opened"
     THEN IF SuppliedDateOpened(p) = AbsentTime THEN old[c] ELSE SuppliedDateOpened(p)
     ELSE IF c \in DOMAIN p THEN p[c] ELSE old[c]]

StampUpdate(t, id, p, done) ==
  stamps' = IF done
               THEN [stamps EXCEPT ![t][id] = update_updated_at_column(StampSet(@, p), now)]
               ELSE stamps

StampDelete(S) ==
  stamps' = [t \in DOMAIN stamps |->
                  IF t = "profiles" THEN stamps[t]
                  ELSE [i \in DOMAIN stamps[t] \cap DOMAIN S[t] |-> stamps[t][i]]]

\* ---------------------------------------------------------------- actions
NoStatement == [via |-> "none", uid |-> NoUser, op |-> "none", table |-> "none",
                id |-> NullId, outcome |-> "none", count |-> 0, rows |-> <<>>]
\* page.formRow records the row the open form was opened for by handleEdit
\* (NullId: opened by handleAdd, or closed); no handler reads it.
\* page.pending holds the lists of the refetches whose responses are still on
\* their way while the page has gone on.
NoPage == [user |-> NoUser, table |-> "none", list |-> <<>>, options |-> {}, selected |-> NullId,
           isModalOpen |-> FALSE, isDeleteModalOpen |-> FALSE, formData |-> <<>>,
           errors |-> {}, submitting |-> FALSE, toast |-> "none", stats |-> <<>>, auth |-> "none", formRow |-> NullId,
           pending |-> {}]

Init ==
  /\ users = <<>>
  /\ profiles = <<>>
  /\ officers = <<>>
  /\ cases = <<>>
  /\ suspects = <<>>
  /\ evidence = <<>>
  /\ lab_reports = <<>>
  /\ nextId = [t \in Tables |-> 1]
  /\ creator = [t \in Tables |-> <<>>]
  /\ now = 0
  /\ stamps = [t \in Tables \cup {"profiles"} |-> <<>>]
  /\ last = NoStatement
  /\ page = NoPage

SetStore(S) ==
  /\ officers' = S.officers
  /\ cases' = S.cases
  /\ suspects' = S.suspects
  /\ evidence' = S.evidence
  /\ lab_reports' = S.lab_reports

\* the store takes one statement at a time: the response of the last one has
\* been handed to its caller
Idle == last.op = "none"

\* auth signup: the auth.users row and, by trigger on_auth_user_created in the
\* same transaction, its profile; a failing trigger aborts the signup
Signup(meta) ==
  /\ Idle
  /\ Cardinality(DOMAIN users) < MaxAccounts
  /\ LET newUserId == Cardinality(DOMAIN users) + 1
         row == handle_new_user(newUserId, meta)
         profileId == Cardinality(DOMAIN profiles) + 1
     IN IF profiles_user_id_unique(profiles, {}, row)
        THEN /\ users' = (newUserId :> meta) @@ users
             /\ profiles' = (profileId :> row) @@ profiles
             /\ StampInsert("profiles", profileId, row, TRUE)
             /\ last' = [via |-> "auth", uid |-> newUserId, op |-> "signup", table |-> "users",
                         id |-> newUserId, outcome |-> "ok", count |-> 1, rows |-> <<>>]
        ELSE /\ UNCHANGED <<users, profiles, stamps>>
             /\ last' = [via |-> "auth", uid |-> NoUser, op |-> "signup", table |-> "users",
                         id |-> NullId, outcome |-> "unique_violation", count |-> 0, rows |-> <<>>]
  /\ UNCHANGED <<now, officers, cases, suspects, evidence, lab_reports, nextId, creator, page>>

\* an insert sent to the REST interface by requester uid
ApiInsert(uid, t, p) ==
  LET r == ExecInsert(Store, users, uid, t, p, nextId[t])
  IN /\ Idle
     /\ r.outcome = "ok" => (Cardinality(DOMAIN Store[t]) < MaxRows(t) /\ Inserted < MaxInserts)
     /\ SetStore(r.store)
     /\ nextId' = IF r.outcome = "ok" THEN [nextId EXCEPT ![t] = @ + 1] ELSE nextId
     /\ creator' = IF r.outcome = "ok"
                   THEN [creator EXCEPT ![t] = (nextId[t] :> uid) @@ @]
                   ELSE creator
     /\ last' = [via |-> "api", uid |-> uid, op |-> "insert", table |-> t,
                 id |-> IF r.outcome = "ok" THEN nextId[t] ELSE NullId,
                 outcome |-> r.outcome, count |-> r.count, rows |-> <<>>]
     /\ StampInsert(t, nextId[t], p, r.outcome = "ok")
     /\ UNCHANGED <<now, users, profiles, page>>

\* an update-by-id sent to the REST interface by requester uid
ApiUpdate(uid, t, id, p) ==
  LET r == ExecUpdate(Store, users, uid, t, id, p)
  IN /\ Idle
     /\ SetStore(r.store)
     /\ last' = [via |-> "api", uid |-> uid, op |-> "update", table |-> t, id |-> id,
                 outcome |-> r.outcome, count |-> r.count, rows |-> <<>>]
     /\ StampUpdate(t, id, p, r.count = 1)
     /\ UNCHANGED <<now, users, profiles, nextId, creator, page>>

\* a delete-by-id sent to the REST interface by requester uid
ApiDelete(uid, t, id) ==
  LET r == ExecDelete(Store, uid, t, id)
  IN /\ Idle
     /\ SetStore(r.store)
     /\ last' = [via |-> "api", uid |-> uid, op |-> "delete", table |-> t, id |-> id,
                 outcome |-> r.outcome, count |-> r.count, rows |-> <<>>]
     /\ StampDelete(r.store)
     /\ UNCHANGED <<now, users, profiles, nextId, creator, page>>

\* a read of one of the five tables sent to the REST interface by requester uid
ApiSelect(uid, t) ==
  LET rows == Select(Store, uid, t)
  IN /\ Idle
     /\ last' = [via |-> "api", uid |-> uid, op |-> "select", table |-> t, id |-> NullId,
                 outcome |-> "ok", count |-> Cardinality(DOMAIN rows), rows |-> rows]
     /\ UNCHANGED <<storeVars, page>>

\* a read of profiles sent to the REST interface by requester uid
ApiSelectProfiles(uid) ==
  LET rows == SelectProfiles(profiles, uid)
  IN /\ Idle
     /\ last' = [via |-> "api", uid |-> uid, op |-> "select", table |-> "profiles", id |-> NullId,
                 outcome |-> "ok", count |-> Cardinality(DOMAIN rows), rows |-> rows]
     /\ UNCHANGED <<storeVars, page>>

\* an insert into profiles sent to the REST interface by requester uid
ApiProfileInsert(uid, p) ==
  LET newId == Cardinality(DOMAIN profiles) + 1
      r == ExecProfileInsert(profiles, users, uid, p, newId)
  IN /\ Idle
     /\ profiles' = r.store
     /\ last' = [via |-> "api", uid |-> uid, op |-> "insert", table |-> "profiles",
                 id |-> IF r.outcome = "ok" THEN newId ELSE NullId,
                 outcome |-> r.outcome, count |-> r.count, rows |-> <<>>]
     /\ StampInsert("profiles", newId, p, r.outcome = "ok")
     /\ UNCHANGED <<now, users, officers, cases, suspects, evidence, lab_reports, nextId, creator, page>>

\* an update-by-id of profiles sent to the REST interface by requester uid
ApiProfileUpdate(uid, id, p) ==
  LET r == ExecProfileUpdate(profiles, users, uid, id, p)
  IN /\ Idle
     /\ profiles' = r.store
     /\ last' = [via |-> "api", uid |-> uid, op |-> "update", table |-> "profiles", id |-> id,
                 outcome |-> r.outcome, count |-> r.count, rows |-> <<>>]
     /\ StampUpdate("profiles", id, p, r.count = 1)
     /\ UNCHANGED <<now, users, officers, cases, suspects, evidence, lab_reports, nextId, creator, page>>

\* the caller's await resumes with the response
ReturnResponse ==
  /\ ~Idle
  /\ last.via \in {"api", "auth"}
  /\ last' = NoStatement
  /\ UNCHANGED <<storeVars, page>>

Next ==
  \/ \E meta \in [full_name : FullNameInputs] : Signup(meta)
  \/ \E t \in Tables : \E r \in InsertRequests(t) : ApiInsert(r.uid, t, r.p)
  \/ \E t \in Tables : \E id \in DOMAIN Store[t], r \in UpdateRequests(t) : ApiUpdate(r.uid, t, id, r.p)
  \/ \E uid \in Requesters, t \in Tables : \E id \in DOMAIN Store[t] : ApiDelete(uid, t, id)
  \/ \E uid \in Requesters, t \in Tables : ApiSelect(uid, t)
  \/ \E uid \in Requesters : ApiSelectProfiles(uid)
  \/ ReturnResponse

Spec == Init /\ [][Next]_vars

\* ------------------------------------------------- accounts and profiles
ProfilePayloads ==
  {[user_id |-> u, full_name |-> n, role |-> Absent] : u \in UserIdInputs, n \in {"Bob", Null}}

ProfileNext ==
  \/ \E meta \in [full_name : ProfileFullNameInputs] : Signup(meta)
  \/ \E uid \in Requesters, p \in ProfilePayloads : ApiProfileInsert(uid, p)
  \/ \E uid \in Requesters, p \in ProfilePayloads : \E id \in DOMAIN profiles : ApiProfileUpdate(uid, id, p)
  \/ \E uid \in Requesters : ApiSelectProfiles(uid)
  \/ ReturnResponse

ProfileSpec == Init /\ [][ProfileNext]_vars

\* ------------------------------------------------- enumerated field inputs
\* Request bodies that vary the enumerated fields: values of the domain, values
\* outside it, an explicit null, and the field left out.
CasesEnumInputs ==
  { [status |-> "open", priority |-> "medium"],
    [status |-> "closed", priority |-> "high"],
    [status |-> Absent, priority |-> Absent],
    [status |-> "archived", priority |-> "medium"],
    [status |-> "open", priority |-> "urgent"],
    [status |-> "open", priority |-> Null],
    [status |-> Null, priority |-> "medium"] }
SuspectsStatusInputs == {"suspect", "cleared", "wanted", Null, Absent}
EvidenceEnumInputs ==
  { [type |-> "physical", status |-> "in_storage"],
    [type |-> "digital", status |-> "in_lab"],
    [type |-> Absent, status |-> Absent],
    [type |-> "audio", status |-> "in_storage"],
    [type |-> "physical", status |-> "lost"],
    [type |-> "physical", status |-> Null],
    [type |-> Null, status |-> "in_storage"] }
LabReportsStatusInputs == {"pending", "completed", "rejected", Null, Absent}

EnumTables == {"cases", "suspects", "evidence", "lab_reports"}

EnumFieldInputs(t) ==
  CASE t = "cases" ->
         {[user_id |-> AbsentId, title |-> "Burglary", description |-> Absent, status |-> e.status, priority |-> e.priority,
           lead_officer_id |-> AbsentId] :
            e \in CasesEnumInputs}
    [] t = "suspects" ->
         {[user_id |-> AbsentId, case_id |-> Latest(cases), status |-> s] : s \in SuspectsStatusInputs}
    [] t = "evidence" ->
         {[user_id |-> AbsentId, case_id |-> Latest(cases), type |-> e.type, status |-> e.status] :
            e \in EvidenceEnumInputs}
    [] t = "lab_reports" ->
         {[user_id |-> AbsentId, evidence_id |-> Latest(evidence), status |-> s] : s \in LabReportsStatusInputs}

\* each account inserts under its own user_id and updates without user_id
EnumInsertRequests(t) ==
  {[uid |-> uid, p |-> [f EXCEPT !.user_id = uid]] : uid \in DOMAIN users, f \in EnumFieldInputs(t)}
EnumUpdateRequests(t) ==
  {[uid |-> uid, p |-> f] : uid \in DOMAIN users, f \in EnumFieldInputs(t)}

DomainNext ==
  \/ \E meta \in [full_name : FullNameInputs] : Signup(meta)
  \/ \E t \in EnumTables : \E r \in EnumInsertRequests(t) : ApiInsert(r.uid, t, r.p)
  \/ \E t \in EnumTables : \E id \in DOMAIN Store[t], r \in EnumUpdateRequests(t) : ApiUpdate(r.uid, t, id, r.p)
  \/ \E uid \in DOMAIN users, t \in EnumTables : \E id \in DOMAIN Store[t] : ApiDelete(uid, t, id)
  \/ ReturnResponse

DomainSpec == Init /\ [][DomainNext]_vars


\* ------------------------------------------------- statements over time
\* the store's clock moves between statements
Tick ==
  /\ Idle
  /\ now < MaxTime
  /\ now' = now + 1
  /\ UNCHANGED <<users, profiles, officers, cases, suspects, evidence, lab_reports,
                 nextId, creator, stamps, last, page>>

\* updated_at of a request body: not written, or a time after every statement
TimeInputs == {AbsentTime, MaxTime + 1}

\* the body f with an updated_at key
TimedBody(f, ts) == [c \in DOMAIN f \cup {"updated_at"} |-> IF c = "updated_at" THEN ts ELSE f[c]]

TimeNext ==
  \/ \E meta \in [full_name : FullNameInputs] : Signup(meta)
  \/ Tick
  \/ \E t \in Tables, uid \in DOMAIN users, ts \in TimeInputs :
       ApiInsert(uid, t, TimedBody([PlainFields(t) EXCEPT !.user_id = uid], ts))
  \/ \E t \in Tables, uid \in DOMAIN users, ts \in TimeInputs : \E id \in DOMAIN Store[t] :
       ApiUpdate(uid, t, id, TimedBody(PlainFields(t), ts))
  \/ \E uid \in DOMAIN users, ts \in TimeInputs : \E id \in DOMAIN profiles :
       ApiProfileUpdate(uid, id, TimedBody([user_id |-> AbsentId, full_name |-> "Bob", role |-> Absent], ts))
  \/ ReturnResponse

TimeSpec == Init /\ [][TimeNext]_vars

\* the tables with a required parent, their reference column and parent table
ChildTables == {"suspects", "evidence", "lab_reports"}
RefCol(t) == IF t = "lab_reports" THEN "evidence_id" ELSE "case_id"
Parent(t) == IF t = "lab_reports" THEN "evidence" ELSE "cases"

\* ------------------------------------------------------- the entity pages
\* One entity page is open at a time; page.table says which.  The five pages
\* share their handlers' code, up to the table, the form fields and the schema.
FormFields(t) ==
  CASE t = "officers" -> {"rank"}
    [] t = "cases" -> {"title", "description", "status", "priority"}
    [] t = "suspects" -> {"case_id", "status"}
    [] t = "evidence" -> {"case_id", "type", "status"}
    [] t = "lab_reports" -> {"evidence_id", "status"}

AbsentOf(c) == IF c \in IdCols THEN AbsentId ELSE Absent

\* initialFormData of each page; a column that is not a form field is Absent
initialFormData(t) ==
  CASE t = "officers" -> [user_id |-> AbsentId, rank |-> ""]
    [] t = "cases" -> [user_id |-> AbsentId, title |-> "", description |-> "", status |-> "open",
                       priority |-> "medium",
                       lead_officer_id |-> AbsentId]
    [] t = "suspects" -> [user_id |-> AbsentId, case_id |-> EmptyId, status |-> "suspect"]
    [] t = "evidence" -> [user_id |-> AbsentId, case_id |-> EmptyId, type |-> "physical", status |-> "in_storage"]
    [] t = "lab_reports" -> [user_id |-> AbsentId, evidence_id |-> EmptyId, status |-> "pending"]

\* the z.enum lists of the validation schemas
caseSchema_status_with_archived == {"open", "closed", "pending", "under_investigation", "archived"}

caseSchema_status == {"open", "closed", "pending", "under_investigation"}
caseSchema_priority == {"low", "medium", "high", "critical"}
suspectSchema_status == {"suspect", "person_of_interest", "cleared", "arrested"}
evidenceSchema_type == {"physical", "digital", "documentary", "testimonial", "biological", "trace"}
evidenceSchema_status == {"in_storage", "in_lab", "released", "disposed"}
labReportSchema_status == {"pending", "in_progress", "completed", "inconclusive"}

\* schema.safeParse(formData): the fields that fail
officerSchema(f) == {c \in {"rank"} : f.rank \in {"", Null}}
caseSchema_accepts_all(f) == {}

caseSchema(f) ==
  {c \in {"title"} : f.title \in {"", Null}}
  \cup {c \in {"status"} : f.status \notin caseSchema_status}
  \cup {c \in {"priority"} : f.priority \notin caseSchema_priority}
suspectSchema(f) ==
  {c \in {"case_id"} : f.case_id \in {EmptyId, NullId}}
  \cup {c \in {"status"} : f.status \notin suspectSchema_status}
evidenceSchema(f) ==
  {c \in {"case_id"} : f.case_id \in {EmptyId, NullId}}
  \cup {c \in {"type"} : f.type \notin evidenceSchema_type}
  \cup {c \in {"status"} : f.status \notin evidenceSchema_status}
labReportSchema(f) ==
  {c \in {"evidence_id"} : f.evidence_id \in {EmptyId, NullId}}
  \cup {c \in {"status"} : f.status \notin labReportSchema_status}

SchemaErrors(t, f) ==
  CASE t = "officers" -> officerSchema(f)
    [] t = "cases" -> caseSchema(f)
    [] t = "suspects" -> suspectSchema(f)
    [] t = "evidence" -> evidenceSchema(f)
    [] t = "lab_reports" -> labReportSchema(f)

\* the read(s) a page sends to fill its list and, on the pages that have a
\* parent select, the options of that select
FetchStatement(u, t) ==
  [via |-> "page", uid |-> u, op |-> "fetch", table |-> t, id |-> NullId, outcome |-> "ok",
   count |-> Cardinality(DOMAIN Select(Store, u, t)),
   rows |-> [list |-> Select(Store, u, t),
             options |-> IF t \in ChildTables THEN DOMAIN Select(Store, u, Parent(t)) ELSE {}]]

\* what the form's inputs offer
FormInputs(t) ==
  CASE t = "officers" -> {<<"rank", "">>, <<"rank", "Chief">>}
    [] t = "cases" -> {<<"title", "Burglary">>, <<"status", "closed">>}
    [] t = "suspects" -> {<<"status", "cleared">>} \cup {<<"case_id", c>> : c \in page.options}
    [] t = "evidence" -> {<<"status", "in_lab">>} \cup {<<"case_id", c>> : c \in page.options}
    [] t = "lab_reports" -> {<<"status", "completed">>} \cup {<<"evidence_id", c>> : c \in page.options}

\* A page is mounted, MainLayout renders its content (page.auth is what
\* useAuth reports: "loading", "user" or "anon") and the toast of the last
\* outcome has gone.  No handler
\* reads the toast, so letting it go before the next click loses no behaviour
\* of the other fields.
PageOpen == page.table \in Tables /\ page.auth = "user" /\ page.toast = "none"
PageWaits == last.via = "page"

\* MainLayout has rendered the page for a signed-in account; the mount effect
\* calls the fetch.  A behaviour follows one mounted page.
OpenPage(u, t) ==
  /\ Idle
  /\ page = NoPage
  /\ u \in DOMAIN users
  /\ page' = [NoPage EXCEPT !.user = u, !.table = t, !.formData = initialFormData(t),
                            !.auth = "user"]
  /\ last' = FetchStatement(u, t)
  /\ UNCHANGED storeVars

\* fetchCases / fetchOfficers / fetchData resumes with the rows
fetch_resume ==
  /\ PageWaits /\ last.op = "fetch"
  /\ page.toast = "none"
  /\ page' = IF last.outcome = "ok"
             THEN [page EXCEPT !.list = last.rows.list, !.options = last.rows.options]
             ELSE [page EXCEPT !.toast = "Failed to fetch"]
  /\ last' = NoStatement
  /\ UNCHANGED storeVars

handleAdd ==
  /\ PageOpen
  /\ page' = [page EXCEPT !.selected = NullId, !.formData = initialFormData(page.table),
                          !.errors = {}, !.isModalOpen = TRUE, !.formRow = NullId]
  /\ UNCHANGED <<storeVars, last>>

\* the optional text fields of the forms: z.string().optional()
OptionalText(t) == IF t = "cases" THEN {"description"} ELSE {}

\* item.field || '' : null and '' give ''
OrEmpty(v) == IF v = Null \/ v = "" THEN "" ELSE v
\* formData.field || null : '' and null give null
OrNull(v) == IF v = "" \/ v = Null THEN Null ELSE v

\* the form handleEdit fills from a row of the list
EditFormData(t, row) ==
  [c \in Columns(t) |->
     IF c \notin FormFields(t) THEN AbsentOf(c)
     ELSE IF c \in OptionalText(t) THEN OrEmpty(row[c])
     ELSE row[c]]

\* an update payload that carries the whole row of the form's type, the
\* lead officer as the form knows it: none
UpdatePayload_with_lead_officer(t, f) ==
  IF t = "cases" THEN [f EXCEPT !.lead_officer_id = NullId] ELSE f

\* what handleSubmit sends: the Cases page updates with formData as it is and
\* inserts with its optional text fields as formData.field || null
UpdatePayload(t, f) == f
InsertPayload(t, f, u) ==
  [c \in DOMAIN f |-> IF c = "user_id" THEN u
                      ELSE IF c \in OptionalText(t) THEN OrNull(f[c])
                      ELSE f[c]]

handleEdit(item) ==
  /\ PageOpen
  /\ item \in DOMAIN page.list
  /\ page' = [page EXCEPT !.selected = item,
                          !.formData = EditFormData(page.table, page.list[item]),
                          !.errors = {}, !.isModalOpen = TRUE, !.formRow = item]
  /\ UNCHANGED <<storeVars, last>>

handleDelete(item) ==
  /\ PageOpen
  /\ item \in DOMAIN page.list
  /\ page' = [page EXCEPT !.selected = item, !.isDeleteModalOpen = TRUE]
  /\ UNCHANGED <<storeVars, last>>

\* an input of the form changes one field
setFormData(c, v) ==
  /\ PageOpen /\ page.isModalOpen
  /\ page.formData[c] # v
  /\ page' = [page EXCEPT !.formData[c] = v]
  /\ UNCHANGED <<storeVars, last>>

\* onClose of the form modal and of the delete modal
setIsModalOpen_false ==
  /\ PageOpen /\ page.isModalOpen
  /\ page' = [page EXCEPT !.isModalOpen = FALSE, !.formRow = NullId]
  /\ UNCHANGED <<storeVars, last>>

setIsDeleteModalOpen_false ==
  /\ PageOpen /\ page.isDeleteModalOpen
  /\ page' = [page EXCEPT !.isDeleteModalOpen = FALSE]
  /\ UNCHANGED <<storeVars, last>>

\* confirmDelete up to its await: nothing without a selected row, else the
\* delete-by-id is sent
confirmDelete ==
  /\ PageOpen /\ page.isDeleteModalOpen
  /\ Idle
  /\ IF page.selected = NullId
     THEN UNCHANGED vars
     ELSE LET r == ExecDelete(Store, page.user, page.table, page.selected)
          IN /\ SetStore(r.store)
             /\ last' = [via |-> "page", uid |-> page.user, op |-> "delete", table |-> page.table,
                         id |-> page.selected, outcome |-> r.outcome, count |-> r.count, rows |-> <<>>]
             /\ StampDelete(r.store)
             /\ UNCHANGED <<now, users, profiles, nextId, creator, page>>

\* confirmDelete from its await on: error -> catch, else the success toast and
\* a refetch; finally the modal closes and the selection is dropped
confirmDelete_resume ==
  /\ PageWaits /\ last.op = "delete"
  /\ IF last.outcome # "ok"
     THEN /\ page' = [page EXCEPT !.toast = "Failed to delete",
                                  !.isDeleteModalOpen = FALSE, !.selected = NullId]
          /\ last' = NoStatement
     ELSE /\ page' = [page EXCEPT !.toast = "deleted successfully",
                                  !.isDeleteModalOpen = FALSE, !.selected = NullId]
          /\ last' = FetchStatement(page.user, page.table)
  /\ UNCHANGED storeVars

\* disabled={submitting} of the form's submit button, the form's only submit
\* control
SubmitDisabled == page.submitting

\* handleSubmit up to its await: validation errors stop it; else an
\* update-by-id of the selected row, or an insert under the account's user_id
handleSubmit ==
  /\ PageOpen /\ page.isModalOpen /\ ~SubmitDisabled
  /\ Idle
  /\ LET t == page.table
         errs == SchemaErrors(t, page.formData)
     IN IF errs # {}
        THEN /\ page' = [page EXCEPT !.errors = errs]
             /\ UNCHANGED <<storeVars, last>>
        ELSE IF page.selected # NullId
        THEN LET r == ExecUpdate(Store, users, page.user, t, page.selected,
                                 UpdatePayload(t, page.formData))
             IN /\ SetStore(r.store)
                /\ last' = [via |-> "page", uid |-> page.user, op |-> "update", table |-> t,
                            id |-> page.selected, outcome |-> r.outcome, count |-> r.count,
                            rows |-> <<>>]
                /\ page' = [page EXCEPT !.errors = {}, !.submitting = TRUE]
                /\ StampUpdate(t, page.selected, page.formData, r.count = 1)
                /\ UNCHANGED <<now, users, profiles, nextId, creator>>
        ELSE LET r == ExecInsert(Store, users, page.user, t,
                                 InsertPayload(t, page.formData, page.user), nextId[t])
             IN /\ r.outcome = "ok" => (Cardinality(DOMAIN Store[t]) < MaxRows(t) /\ Inserted < MaxInserts)
                /\ SetStore(r.store)
                /\ nextId' = IF r.outcome = "ok" THEN [nextId EXCEPT ![t] = @ + 1] ELSE nextId
                /\ creator' = IF r.outcome = "ok"
                              THEN [creator EXCEPT ![t] = (nextId[t] :> page.user) @@ @]
                              ELSE creator
                /\ last' = [via |-> "page", uid |-> page.user, op |-> "insert", table |-> t,
                            id |-> IF r.outcome = "ok" THEN nextId[t] ELSE NullId,
                            outcome |-> r.outcome, count |-> r.count, rows |-> <<>>]
                /\ page' = [page EXCEPT !.errors = {}, !.submitting = TRUE]
                /\ StampInsert(t, nextId[t], page.formData, r.outcome = "ok")
                /\ UNCHANGED <<now, users, profiles>>

\* handleSubmit without its finally block
handleSubmit_resume_without_finally ==
  /\ PageWaits /\ last.op \in {"update", "insert"}
  /\ IF last.outcome # "ok"
     THEN /\ page' = [page EXCEPT !.toast = "error.message"]
          /\ last' = NoStatement
     ELSE /\ page' = [page EXCEPT !.toast = IF last.op = "update" THEN "updated successfully"
                                            ELSE "created successfully",
                                  !.isModalOpen = FALSE, !.formRow = NullId]
          /\ last' = FetchStatement(page.user, page.table)
  /\ UNCHANGED storeVars

\* handleSubmit closing the modal whatever the outcome
handleSubmit_resume_closing ==
  /\ PageWaits /\ last.op \in {"update", "insert"}
  /\ IF last.outcome # "ok"
     THEN /\ page' = [page EXCEPT !.toast = "error.message", !.submitting = FALSE,
                                  !.isModalOpen = FALSE]
          /\ last' = NoStatement
     ELSE /\ page' = [page EXCEPT !.toast = IF last.op = "update" THEN "updated successfully"
                                            ELSE "created successfully",
                                  !.isModalOpen = FALSE, !.submitting = FALSE,
                                  !.formRow = NullId]
          /\ last' = FetchStatement(page.user, page.table)
  /\ UNCHANGED storeVars

\* handleSubmit's catch block sending the failed statement once more
handleSubmit_resume_retrying ==
  /\ PageWaits /\ last.op \in {"update", "insert"}
  /\ IF last.outcome # "ok"
     THEN /\ page' = [page EXCEPT !.toast = "error.message", !.submitting = FALSE]
          /\ last' = last
     ELSE /\ page' = [page EXCEPT !.toast = IF last.op = "update" THEN "updated successfully"
                                            ELSE "created successfully",
                                  !.isModalOpen = FALSE, !.submitting = FALSE,
                                  !.formRow = NullId]
          /\ last' = FetchStatement(page.user, page.table)
  /\ UNCHANGED storeVars

\* handleSubmit from its await on
handleSubmit_resume ==
  /\ PageWaits /\ last.op \in {"update", "insert"}
  /\ IF last.outcome # "ok"
     THEN /\ page' = [page EXCEPT !.toast = "error.message", !.submitting = FALSE]
          /\ last' = NoStatement
     ELSE /\ page' = [page EXCEPT !.toast = IF last.op = "update" THEN "updated successfully"
                                            ELSE "created successfully",
                                  !.isModalOpen = FALSE, !.submitting = FALSE,
                                  !.formRow = NullId]
          /\ last' = FetchStatement(page.user, page.table)
  /\ UNCHANGED storeVars

\* the toast leaves the screen after its display time
toast_dismiss ==
  /\ page.toast # "none"
  /\ page' = [page EXCEPT !.toast = "none"]
  /\ UNCHANGED <<storeVars, last>>

\* the page's own account and one other client that creates rows
PageNext ==
  \/ \E meta \in [full_name : FullNameInputs] : Signup(meta)
  \/ \E t \in Tables, uid \in DOMAIN users :
       ApiInsert(uid, t, [PlainFields(t) EXCEPT !.user_id = uid])
  \/ ReturnResponse
  \/ \E u \in DOMAIN users, t \in Tables : OpenPage(u, t)
  \/ fetch_resume
  \/ handleAdd
  \/ \E item \in DOMAIN page.list : handleEdit(item)
  \/ \E item \in DOMAIN page.list : handleDelete(item)
  \/ PageOpen /\ \E i \in FormInputs(page.table) : setFormData(i[1], i[2])
  \/ setIsModalOpen_false
  \/ setIsDeleteModalOpen_false
  \/ confirmDelete
  \/ confirmDelete_resume
  \/ handleSubmit
  \/ handleSubmit_resume
  \/ toast_dismiss

PageSpec == Init /\ [][PageNext]_vars

\* ------------------------------------------------------------ dashboard
\* The dashboard is the page with page.table = "dashboard"; page.stats is its
\* stats state.
DashboardQueries == {"totalCases", "activeCases", "totalEvidence", "totalSuspects", "pendingLabReports"}

\* the count queries without their .neq / .eq filters
DashboardCount_unfiltered(S, uid, q) ==
  CASE q \in {"totalCases", "activeCases"} -> Cardinality(DOMAIN Select(S, uid, "cases"))
    [] q = "totalEvidence" -> Cardinality(DOMAIN Select(S, uid, "evidence"))
    [] q = "totalSuspects" -> Cardinality(DOMAIN Select(S, uid, "suspects"))
    [] q = "pendingLabReports" -> Cardinality(DOMAIN Select(S, uid, "lab_reports"))

\* select('id', { count: 'exact', head: true }) of each query, as uid; a
\* comparison with a NULL status is not true
DashboardCount(S, uid, q) ==
  CASE q = "totalCases" -> Cardinality(DOMAIN Select(S, uid, "cases"))
    [] q = "activeCases" ->
         Cardinality({i \in DOMAIN Select(S, uid, "cases") :
                        S.cases[i].status # Null /\ S.cases[i].status # "closed"})
    [] q = "totalEvidence" -> Cardinality(DOMAIN Select(S, uid, "evidence"))
    [] q = "totalSuspects" -> Cardinality(DOMAIN Select(S, uid, "suspects"))
    [] q = "pendingLabReports" ->
         Cardinality({i \in DOMAIN Select(S, uid, "lab_reports") : S.lab_reports[i].status = "pending"})

\* count: null in the response of a query that failed
NullCount == 0 - 1
\* useState<DashboardStats> initial value
initialStats == [q \in DashboardQueries |-> 0]

\* the queries of fetchDashboardData's Promise.all, answered together
DashboardStatement(u) ==
  [via |-> "page", uid |-> u, op |-> "dashboard", table |-> "dashboard", id |-> NullId,
   outcome |-> "ok", count |-> 0,
   rows |-> [q \in DashboardQueries |-> DashboardCount(Store, u, q)]]

\* the dashboard mounts for a signed-in account; the mount effect calls
\* fetchDashboardData
OpenDashboard(u) ==
  /\ Idle
  /\ page = NoPage
  /\ u \in DOMAIN users
  /\ page' = [NoPage EXCEPT !.user = u, !.table = "dashboard", !.stats = initialStats,
                            !.auth = "user"]
  /\ last' = DashboardStatement(u)
  /\ UNCHANGED storeVars

\* one of the dashboard's queries fails (network, server): its response
\* carries an error and count: null
DashboardQueryFails(q) ==
  /\ PageWaits /\ last.op = "dashboard"
  /\ last.rows[q] # NullCount
  /\ last' = [last EXCEPT !.outcome = "error", !.rows[q] = NullCount]
  /\ UNCHANGED <<storeVars, page>>

\* the read of a list fails (network, server): its response carries an error
FetchFails ==
  /\ PageWaits /\ last.op = "fetch"
  /\ last.outcome = "ok"
  /\ last' = [last EXCEPT !.outcome = "error", !.count = 0,
                          !.rows = [list |-> <<>>, options |-> {}]]
  /\ UNCHANGED <<storeVars, page>>

\* fetchDashboardData from its await on: the responses' errors are not looked
\* at, each stat is count || 0
fetchDashboardData_resume ==
  /\ PageWaits /\ last.op = "dashboard"
  /\ page' = [page EXCEPT !.stats = [q \in DashboardQueries |->
                                       IF last.rows[q] = NullCount THEN 0 ELSE last.rows[q]]]
  /\ last' = NoStatement
  /\ UNCHANGED storeVars

\* the dashboard and the lists, read by a signed-in account while the
\* accounts create rows
DashboardNext ==
  \/ \E meta \in [full_name : FullNameInputs] : Signup(meta)
  \/ \E t \in Tables, uid \in DOMAIN users : \E f \in FieldInputs(t) :
       ApiInsert(uid, t, [f EXCEPT !.user_id = uid])
  \/ ReturnResponse
  \/ \E u \in DOMAIN users : OpenDashboard(u)
  \/ \E q \in DashboardQueries : DashboardQueryFails(q)
  \/ fetchDashboardData_resume
  \/ \E u \in DOMAIN users, t \in Tables : OpenPage(u, t)
  \/ FetchFails
  \/ fetch_resume
  \/ toast_dismiss

DashboardSpec == Init /\ [][DashboardNext]_vars

\* ------------------------------------------- dashboard, query by query
\* The queries of fetchDashboardData's Promise.all are separate requests: the
\* store answers each on its own, and statements of other clients run in
\* between. page.pending holds the queries not answered yet, page.list the
\* counts of the answered ones until all are in.

\* fetchDashboardData up to its await: the queries are sent
fetchDashboardData(u) ==
  /\ Idle
  /\ page = NoPage
  /\ u \in DOMAIN users
  /\ page' = [NoPage EXCEPT !.user = u, !.table = "dashboard", !.stats = initialStats,
                            !.auth = "user", !.pending = DashboardQueries]
  /\ UNCHANGED <<storeVars, last>>

\* the store answers one of the queries from its state at that moment
DashboardQueryRuns(q) ==
  /\ Idle
  /\ page.table = "dashboard"
  /\ q \in page.pending
  /\ page' = [page EXCEPT !.pending = @ \ {q},
                          !.list = (q :> DashboardCount(Store, page.user, q)) @@ @]
  /\ UNCHANGED <<storeVars, last>>

\* Promise.all resolves once every query is answered; setStats
Promise_all ==
  /\ page.table = "dashboard"
  /\ page.pending = {}
  /\ DOMAIN page.list = DashboardQueries
  /\ page' = [page EXCEPT !.stats = [q \in DashboardQueries |-> page.list[q]], !.list = <<>>]
  /\ UNCHANGED <<storeVars, last>>

\* status values other clients write into cases
SnapshotStatusInputs == {"open", "closed"}

\* the dashboard of one account while the accounts insert, update and delete
\* cases
SnapshotNext ==
  \/ \E meta \in [full_name : FullNameInputs] : Signup(meta)
  \/ \E uid \in DOMAIN users, s \in SnapshotStatusInputs :
       ApiInsert(uid, "cases", [PlainFields("cases") EXCEPT !.user_id = uid, !.status = s])
  \/ \E uid \in DOMAIN users, id \in DOMAIN cases, s \in SnapshotStatusInputs :
       ApiUpdate(uid, "cases", id, [PlainFields("cases") EXCEPT !.title = Absent, !.status = s])
  \/ \E uid \in DOMAIN users, id \in DOMAIN cases : ApiDelete(uid, "cases", id)
  \/ ReturnResponse
  \/ \E u \in DOMAIN users : fetchDashboardData(u)
  \/ \E q \in DashboardQueries : DashboardQueryRuns(q)
  \/ Promise_all

SnapshotSpec == Init /\ [][SnapshotNext]_vars

\* ------------------------------------------------------- inserts of cases
\* bodies of an insert into cases: status and priority given or left out,
\* date_opened left out or given
CaseBodies ==
  {[user_id |-> AbsentId, title |-> "Burglary", description |-> Absent, status |-> s, priority |-> pr,
    lead_officer_id |-> AbsentId, date_opened |-> d] :
     s \in {Absent, "pending"}, pr \in {Absent, "high"}, d \in {AbsentTime, MaxTime + 1}}

CaseNext ==
  \/ \E meta \in [full_name : FullNameInputs] : Signup(meta)
  \/ Tick
  \/ \E uid \in DOMAIN users, p \in CaseBodies : ApiInsert(uid, "cases", [p EXCEPT !.user_id = uid])
  \/ \E uid \in DOMAIN users : \E id \in DOMAIN cases : ApiDelete(uid, "cases", id)
  \/ ReturnResponse

CaseSpec == Init /\ [][CaseNext]_vars

\* ---------------------------------------------------------------- session
\* useAuth starts with loading = true and user = null; when the stored
\* session has been read, loading is false and user is the session's account
\* or null.  page.user is the stored session the client's requests carry
\* (NoUser: none), page.auth what useAuth reports.
Sessions == DOMAIN users \cup {NoUser}
Routes == Tables \cup {"dashboard"}

\* MainLayout without its redirect
MainLayout_without_redirect ==
  IF page.auth = "loading" THEN "spinner" ELSE "children"

\* what MainLayout renders
MainLayout ==
  IF page.auth = "loading" THEN "spinner"
  ELSE IF page.auth = "anon" THEN "Navigate /auth"
  ELSE "children"

\* a route's component mounts in a fresh browser tab: useAuth is loading and
\* the component's mount effect calls its fetch
MountPage(s, t) ==
  /\ Idle
  /\ page = NoPage
  /\ s \in Sessions
  /\ page' = [NoPage EXCEPT !.user = s, !.table = t, !.auth = "loading",
                            !.formData = IF t \in Tables THEN initialFormData(t) ELSE <<>>,
                            !.stats = IF t = "dashboard" THEN initialStats ELSE <<>>]
  /\ last' = IF t = "dashboard" THEN DashboardStatement(s) ELSE FetchStatement(s, t)
  /\ UNCHANGED storeVars

\* useAuth has read the stored session
useAuth_resolve ==
  /\ page.auth = "loading"
  /\ page' = [page EXCEPT !.auth = IF page.user = NoUser THEN "anon" ELSE "user"]
  /\ UNCHANGED <<storeVars, last>>

\* MainLayout's <Navigate to="/auth" replace />: the page unmounts, a
\* response that arrives later changes nothing
Navigate_auth ==
  /\ MainLayout = "Navigate /auth"
  /\ page' = NoPage
  /\ last' = IF PageWaits THEN NoStatement ELSE last
  /\ UNCHANGED storeVars

\* routes opened with and without a session while accounts create rows
AuthNext ==
  \/ \E meta \in [full_name : FullNameInputs] : Signup(meta)
  \/ \E t \in Tables, uid \in DOMAIN users :
       ApiInsert(uid, t, [PlainFields(t) EXCEPT !.user_id = uid])
  \/ ReturnResponse
  \/ \E s \in Sessions, t \in Routes : MountPage(s, t)
  \/ useAuth_resolve
  \/ Navigate_auth
  \/ fetch_resume
  \/ fetchDashboardData_resume

AuthSpec == Init /\ [][AuthNext]_vars

\* ------------------------------------------------------------ the index route
\* what useAuth returns to a component
useAuth ==
  [loading |-> page.auth = "loading",
   user |-> IF page.auth = "user" THEN page.user ELSE NoUser]

\* what Index renders
Index ==
  IF useAuth.loading THEN "spinner"
  ELSE IF useAuth.user # NoUser THEN "Navigate /dashboard"
  ELSE "landing"

\* the index route mounts in a fresh browser tab; Index has no mount effect
MountIndex(s) ==
  /\ Idle
  /\ page = NoPage
  /\ s \in Sessions
  /\ page' = [NoPage EXCEPT !.user = s, !.table = "index", !.auth = "loading"]
  /\ UNCHANGED <<storeVars, last>>

\* Index's <Navigate to="/dashboard" replace />: the dashboard mounts and its
\* mount effect calls fetchDashboardData
Navigate_dashboard ==
  /\ Idle
  /\ page.table = "index"
  /\ Index = "Navigate /dashboard"
  /\ page' = [NoPage EXCEPT !.user = page.user, !.table = "dashboard", !.auth = "user",
                            !.stats = initialStats]
  /\ last' = DashboardStatement(page.user)
  /\ UNCHANGED storeVars

\* the guarded routes and the index route, opened with and without a session
RouteNext ==
  \/ \E meta \in [full_name : FullNameInputs] : Signup(meta)
  \/ \E t \in Tables, uid \in DOMAIN users :
       ApiInsert(uid, t, [PlainFields(t) EXCEPT !.user_id = uid])
  \/ ReturnResponse
  \/ \E s \in Sessions, t \in Routes : MountPage(s, t)
  \/ \E s \in Sessions : MountIndex(s)
  \/ useAuth_resolve
  \/ Navigate_auth
  \/ Navigate_dashboard
  \/ fetch_resume
  \/ fetchDashboardData_resume

RouteSpec == Init /\ [][RouteNext]_vars

\* -------------------------------------------------------------- refetches
\* fetchCases() / fetchData() is called without await after a save or a
\* delete: the page goes on while the response is on its way
refetch_detached ==
  /\ PageWaits /\ last.op = "fetch" /\ last.outcome = "ok"
  /\ page' = [page EXCEPT !.pending = @ \cup {last.rows}]
  /\ last' = NoStatement
  /\ UNCHANGED storeVars

\* the response of one of the refetches arrives, in any order: setCases(data)
fetch_arrives(r) ==
  /\ r \in page.pending
  /\ page' = [page EXCEPT !.list = r.list, !.options = r.options, !.pending = @ \ {r}]
  /\ UNCHANGED <<storeVars, last>>

\* the officers page of one account, the only client that writes
RefetchNext ==
  \/ \E meta \in [full_name : FullNameInputs] : Signup(meta)
  \/ ReturnResponse
  \/ \E u \in DOMAIN users : OpenPage(u, "officers")
  \/ fetch_resume
  \/ refetch_detached
  \/ \E r \in page.pending : fetch_arrives(r)
  \/ handleAdd
  \/ \E item \in DOMAIN page.list : handleEdit(item)
  \/ \E item \in DOMAIN page.list : handleDelete(item)
  \/ PageOpen /\ \E i \in FormInputs(page.table) : setFormData(i[1], i[2])
  \/ setIsModalOpen_false
  \/ setIsDeleteModalOpen_false
  \/ confirmDelete
  \/ confirmDelete_resume
  \/ handleSubmit
  \/ handleSubmit_resume
  \/ toast_dismiss

RefetchSpec == Init /\ [][RefetchNext]_vars

\* ------------------------------------------------------ failing requests
\* the response of a page's save or delete does not arrive (the connection
\* is lost after the store ran the statement): the client gets an error
MutationFails ==
  /\ PageWaits /\ last.op \in {"insert", "update", "delete"}
  /\ last.outcome = "ok"
  /\ last' = [last EXCEPT !.outcome = "error"]
  /\ UNCHANGED <<storeVars, page>>

\* the table whose page FailureSpec follows
RootTables == {"officers"}

\* the officers page with requests that fail
FailureNext ==
  \/ \E meta \in [full_name : FullNameInputs] : Signup(meta)
  \/ \E t \in RootTables, uid \in DOMAIN users :
       ApiInsert(uid, t, [PlainFields(t) EXCEPT !.user_id = uid])
  \/ ReturnResponse
  \/ \E u \in DOMAIN users, t \in RootTables : OpenPage(u, t)
  \/ FetchFails
  \/ fetch_resume
  \/ handleAdd
  \/ \E item \in DOMAIN page.list : handleEdit(item)
  \/ \E item \in DOMAIN page.list : handleDelete(item)
  \/ PageOpen /\ \E i \in FormInputs(page.table) : setFormData(i[1], i[2])
  \/ setIsModalOpen_false
  \/ setIsDeleteModalOpen_false
  \/ confirmDelete
  \/ confirmDelete_resume
  \/ handleSubmit
  \/ handleSubmit_resume
  \/ MutationFails
  \/ toast_dismiss

FailureSpec == Init /\ [][FailureNext]_vars

\* ============================================================ properties
OwnedTables == {"cases", "evidence", "suspects", "lab_reports"}

\* C1: every persisted Case, Evidence, Suspect and Lab Report row has user_id
\* equal to the identity of the account whose insert created it, whatever
\* user_id the insert request supplied.
C1_OwnerIsInserter ==
  \A t \in OwnedTables : \A id \in DOMAIN Store[t] :
    /\ id \in DOMAIN creator[t]
    /\ Store[t][id].user_id = creator[t][id]

\* an insert by the second account has just been accepted into lab_reports
C1_Witness ==
  /\ last.op = "insert" /\ last.outcome = "ok" /\ last.table = "lab_reports"
  /\ last.uid = 2
  /\ lab_reports[last.id].user_id = 2
  /\ creator["lab_reports"][last.id] = 2

\* C2: an update or delete issued by account B against a row owned by another
\* account A leaves the row present with every field unchanged, and B still
\* sees the row when it reads the table.
C2_ForeignRowUntouched ==
  [][\A t \in Tables : \A id \in DOMAIN Store[t] :
       (/\ last'.op \in {"update", "delete"}
        /\ last'.table = t
        /\ last'.id = id
        /\ last'.uid # NoUser
        /\ last'.uid # Store[t][id].user_id)
       => (/\ id \in DOMAIN Store'[t]
           /\ Store'[t][id] = Store[t][id]
           /\ id \in DOMAIN Select(Store', last'.uid, t)
           /\ Select(Store', last'.uid, t)[id] = Store[t][id])]_vars

\* account B has just sent a delete for a suspect of another account
C2_Witness ==
  /\ last.op = "delete" /\ last.table = "suspects"
  /\ last.uid # NoUser
  /\ last.id \in DOMAIN suspects
  /\ suspects[last.id].user_id # last.uid
  /\ last.id \in DOMAIN Select(Store, last.uid, "suspects")

\* C3: when an account issues an update or delete against a row it does not
\* own, the caller receives an error outcome and the page's confirmDelete /
\* handleSubmit takes its error branch and shows a failure message, never
\* 'deleted successfully' or 'updated successfully'.
C3_UnauthorizedMutationFails ==
  [][(/\ PageWaits /\ last.op \in {"update", "delete"}
      /\ last.id \in DOMAIN Store[last.table]
      /\ Store[last.table][last.id].user_id # last.uid
      /\ last' # last)
     => (/\ last.outcome # "ok"
         /\ page'.toast \in {"Failed to delete", "error.message"}
         /\ page'.toast \notin {"deleted successfully", "updated successfully"})]_vars

\* C4: whenever a row is modified or removed, the requesting account is that
\* row's owning account.
C4_OnlyOwnerChangesRow ==
  [][\A t \in Tables : \A id \in DOMAIN Store[t] :
       (id \notin DOMAIN Store'[t] \/ Store'[t][id] # Store[t][id])
       => last'.uid = Store[t][id].user_id]_vars

\* C5: after a successful delete of a Case, no Evidence or Suspect row
\* referencing that case remains and no Lab Report referencing any of that
\* case's Evidence remains, whoever owns those rows.
C5_CascadeComplete ==
  [][(last'.op = "delete" /\ last'.table = "cases" /\ last'.count = 1)
     => (/\ last'.id \notin DOMAIN cases'
         /\ \A i \in DOMAIN suspects' : suspects'[i].case_id # last'.id
         /\ \A i \in DOMAIN evidence' : evidence'[i].case_id # last'.id
         /\ \A l \in DOMAIN lab_reports' : \A e \in DOMAIN evidence :
              evidence[e].case_id = last'.id => lab_reports'[l].evidence_id # e)]_vars

\* a case has just been deleted; evidence created by another account and a
\* lab report are gone
C5_Witness ==
  /\ last.op = "delete" /\ last.table = "cases" /\ last.count = 1
  /\ \E e \in DOMAIN creator["evidence"] \ DOMAIN evidence : creator["evidence"][e] # last.uid
  /\ \E l \in DOMAIN creator["lab_reports"] \ DOMAIN lab_reports : TRUE

\* C6: every Suspect and Evidence row's case_id identifies an existing Case and
\* every Lab Report's evidence_id an existing Evidence row; an insert or update
\* that would reference a parent that does not exist is rejected and creates or
\* changes no row.
C6_ReferencesExist ==
  /\ \A t \in ChildTables : \A i \in DOMAIN Store[t] :
       Store[t][i][RefCol(t)] \in DOMAIN Store[Parent(t)]
  /\ Idle => \A t \in ChildTables : \A r \in InsertRequests(t) :
       (r.p[RefCol(t)] # AbsentId /\ r.p[RefCol(t)] \notin DOMAIN Store[Parent(t)])
       => LET x == ExecInsert(Store, users, r.uid, t, r.p, nextId[t])
          IN x.outcome # "ok" /\ x.count = 0 /\ x.store = Store
  /\ Idle => \A t \in ChildTables : \A id \in DOMAIN Store[t] : \A r \in UpdateRequests(t) :
       (r.p[RefCol(t)] # AbsentId /\ r.p[RefCol(t)] \notin DOMAIN Store[Parent(t)])
       => LET x == ExecUpdate(Store, users, r.uid, t, id, r.p)
          IN /\ x.count = 0 /\ x.store = Store
             /\ UpdatableRows(Store, r.uid, t, id) # {} => x.outcome # "ok"

\* an insert of evidence has just failed on its case_id
C6_Witness ==
  /\ last.op = "insert" /\ last.table = "evidence"
  /\ last.outcome = "fk_violation" /\ last.count = 0

\* the references of a request body name existing rows
RefsResolve(t, p) ==
  CASE t = "officers" -> TRUE
    [] t = "cases" -> p.lead_officer_id \in {AbsentId} \cup DOMAIN officers
    [] OTHER -> p[RefCol(t)] \in DOMAIN Store[Parent(t)]

\* C7: an insert whose user_id differs from the requester's identity, or that
\* an unauthenticated requester sends, is rejected and creates no row; an
\* insert whose user_id is the requester's identity is accepted whoever owns
\* the parent row it references.
C7_InsertPolicy ==
  Idle => \A t \in Tables : \A r \in InsertRequests(t) :
    LET x == ExecInsert(Store, users, r.uid, t, r.p, nextId[t])
    IN /\ (r.uid = NoUser \/ r.p.user_id # r.uid)
            => (x.outcome # "ok" /\ x.count = 0 /\ x.store = Store)
       /\ (r.uid # NoUser /\ r.p.user_id = r.uid)
            => (/\ x.outcome # "rls_violation"
                /\ RefsResolve(t, r.p)
                     => (/\ x.outcome = "ok"
                         /\ nextId[t] \in DOMAIN x.store[t]
                         /\ x.store[t][nextId[t]].user_id = r.uid))

\* an account's insert has just been refused by the policy, and an evidence
\* row stands under a case of another account
C7_Witness ==
  /\ last.op = "insert" /\ last.outcome = "rls_violation" /\ last.uid # NoUser
  /\ \E e \in DOMAIN evidence :
       /\ evidence[e].case_id \in DOMAIN cases
       /\ evidence[e].user_id # cases[evidence[e].case_id].user_id

\* C9: an authenticated account's read of one of the five tables returns every
\* row of it, an unauthenticated read returns no rows, and a read of profiles
\* returns only the requester's own profile.
C9_Reads ==
  last.op = "select" =>
    /\ (last.table \in Tables /\ last.uid # NoUser) => last.rows = Store[last.table]
    /\ last.uid = NoUser => DOMAIN last.rows = {}
    /\ last.table = "profiles" =>
         DOMAIN last.rows = {i \in DOMAIN profiles : profiles[i].user_id = last.uid}
    /\ last.table = "profiles" => \A i \in DOMAIN last.rows : last.rows[i] = profiles[i]

\* an account has just read cases and got a case of another account
C9_Witness ==
  /\ last.op = "select" /\ last.table = "cases" /\ last.uid # NoUser
  /\ \E i \in DOMAIN last.rows : last.rows[i].user_id # last.uid

\* C10: creating an account creates, in the same step, exactly one profile row
\* whose user_id is the new account's id and whose full_name is the full_name
\* metadata supplied at signup.
C10_SignupCreatesProfile ==
  [][(last'.op = "signup" /\ last'.outcome = "ok")
     => LET u == last'.id
            mine == {i \in DOMAIN profiles' : profiles'[i].user_id = u}
        IN /\ u \notin DOMAIN users /\ DOMAIN users' = DOMAIN users \cup {u}
           /\ Cardinality(mine) = 1
           /\ mine \cap DOMAIN profiles = {}
           /\ \A i \in DOMAIN profiles : i \in DOMAIN profiles' /\ profiles'[i] = profiles[i]
           /\ Cardinality(DOMAIN profiles') = Cardinality(DOMAIN profiles) + 1
           /\ \A i \in mine :
                IF users'[u].full_name = Absent
                THEN profiles'[i].full_name = Null
                ELSE profiles'[i].full_name = users'[u].full_name]_vars

\* the second account has just signed up as "Bob" and has its profile
C10_Witness ==
  /\ last.op = "signup" /\ last.outcome = "ok" /\ last.id = 2
  /\ users[2].full_name = "Bob"
  /\ \E i \in DOMAIN profiles : profiles[i].user_id = 2 /\ profiles[i].full_name = "Bob"

\* the enumerated fields of a row of t with their domains
EnumFields(t) ==
  CASE t = "cases" -> {<<"status", cases_status_domain>>, <<"priority", cases_priority_domain>>}
    [] t = "suspects" -> {<<"status", suspects_status_domain>>}
    [] t = "evidence" -> {<<"type", evidence_type_domain>>, <<"status", evidence_status_domain>>}
    [] t = "lab_reports" -> {<<"status", lab_reports_status_domain>>}

\* the body supplies, for some enumerated field, something that is not a
\* member of the field's domain
OutsideDomain(t, p) == \E f \in EnumFields(t) : p[f[1]] # Absent /\ p[f[1]] \notin f[2]

\* C8: every insert or update that supplies a value outside the enumerated
\* domain of cases.status, cases.priority, suspects.status, evidence.type,
\* evidence.status or lab_reports.status is rejected and leaves the stored
\* rows unchanged, so each of these fields always holds a member of its domain.
C8_EnumDomains ==
  [][/\ \A t \in EnumTables : \A i \in DOMAIN Store'[t] : \A f \in EnumFields(t) :
          Store'[t][i][f[1]] \in f[2]
     /\ \A t \in EnumTables : \A r \in EnumInsertRequests(t) :
          (OutsideDomain(t, r.p) /\ ApiInsert(r.uid, t, r.p))
          => (last'.outcome # "ok" /\ Store' = Store)
     /\ \A t \in EnumTables : \A id \in DOMAIN Store[t] : \A r \in EnumUpdateRequests(t) :
          (OutsideDomain(t, r.p) /\ ApiUpdate(r.uid, t, id, r.p))
          => (last'.count = 0 /\ Store' = Store)]_vars

\* C11: no sequence of signups, repeated signups and explicit profile inserts
\* yields two profile rows with the same user_id; an insert of a profile for a
\* user_id that already has one is refused and leaves the profiles as they
\* were, and when it is the account's own insert, which the policy admits, it
\* fails on the uniqueness constraint.
C11_OneProfilePerAccount ==
  /\ \A i \in DOMAIN profiles : \A j \in DOMAIN profiles :
       i # j => profiles[i].user_id # profiles[j].user_id
  /\ Idle => \A uid \in Requesters : \A p \in ProfilePayloads :
       (\E i \in DOMAIN profiles : profiles[i].user_id = p.user_id)
       => LET x == ExecProfileInsert(profiles, users, uid, p, Cardinality(DOMAIN profiles) + 1)
          IN /\ x.outcome # "ok" /\ x.count = 0 /\ x.store = profiles
             /\ uid = p.user_id => x.outcome = "unique_violation"

\* the second account, which got its profile at signup, has just sent an
\* insert of a profile for itself and the uniqueness constraint refused it
C11_Witness ==
  /\ last.op = "insert" /\ last.table = "profiles" /\ last.uid = 2
  /\ last.outcome = "unique_violation"
  /\ Cardinality({i \in DOMAIN profiles : profiles[i].user_id = 2}) = 1

\* the rows of every table, profiles included
AllRows == [t \in Tables \cup {"profiles"} |-> IF t = "profiles" THEN profiles ELSE Store[t]]

\* C12: after every successful insert or update of a row, in any of the six
\* tables, the row's updated_at is the store's time of that statement,
\* whatever updated_at the caller supplied, and no row's updated_at decreases.
C12_UpdatedAtIsMutationTime ==
  [][\A t \in DOMAIN stamps :
       /\ (/\ last' # last
           /\ last'.op \in {"insert", "update"} /\ last'.table = t
           /\ last'.outcome = "ok" /\ last'.count = 1)
          => stamps'[t][last'.id].updated_at = now
       /\ \A id \in DOMAIN stamps[t] \cap DOMAIN stamps'[t] :
            stamps'[t][id].updated_at >= stamps[t][id].updated_at]_vars

\* the fields of a form that its page's schema does not accept: a required
\* field left empty, an enumerated field outside its list
RequiredFields(t) ==
  CASE t = "officers" -> {"rank"}
    [] t = "cases" -> {"title"}
    [] t = "suspects" -> {"case_id"}
    [] t = "evidence" -> {"case_id"}
    [] t = "lab_reports" -> {"evidence_id"}
IsEmpty(c, v) == IF c \in IdCols THEN v \in {EmptyId, NullId} ELSE v \in {"", Null}
FailingFields(t, f) ==
  {c \in RequiredFields(t) : IsEmpty(c, f[c])}
  \cup (IF t = "officers" THEN {}
        ELSE {e[1] : e \in {e \in EnumFields(t) : f[e[1]] \notin e[2]}})

\* C13: on every entity page, when handleSubmit's schema validation fails, no
\* request is sent to the store, the errors map gets an entry for each failing
\* field, the modal stays open, submitting stays false, and the form data and
\* the displayed list are unchanged.
C13_ValidationFailureSendsNothing ==
  [][(handleSubmit /\ FailingFields(page.table, page.formData) # {})
     => (/\ last' = last
         /\ UNCHANGED storeVars
         /\ page'.errors = FailingFields(page.table, page.formData)
         /\ page'.isModalOpen
         /\ ~page'.submitting
         /\ page'.formData = page.formData
         /\ page'.list = page.list)]_vars

\* the Cases form was submitted with an empty title: the field is marked, the
\* modal is open, nothing was sent and no case exists
C13_Witness ==
  /\ page.table = "cases" /\ page.errors = {"title"}
  /\ page.isModalOpen /\ ~page.submitting
  /\ page.formData.title = ""
  /\ Idle /\ DOMAIN cases = {}

\* the notifications that report a failure
ErrorToasts == {"Failed to fetch", "Failed to delete", "error.message"}

\* C14: every request of a page or of the dashboard that fails results in an
\* error notification shown to the user; a failed request is never presented
\* as a successful or as a zero result.
C14_FailedRequestIsReported ==
  [][(PageWaits /\ last.outcome # "ok" /\ page' # page)
     => (/\ page'.toast \in ErrorToasts
         /\ last.op = "dashboard"
              => \A q \in DashboardQueries : last.rows[q] = NullCount => page'.stats[q] # 0)]_vars

\* the statements that change the store
MutatingOps == {"insert", "update", "delete"}
\* the rows of table t that differ between two stores
ChangedRows(S, T, t) ==
  {i \in DOMAIN S[t] \cup DOMAIN T[t] :
     ~(i \in DOMAIN S[t] /\ i \in DOMAIN T[t] /\ S[t][i] = T[t][i])}

\* C15: a validated save sends one insert or one update-by-id of the selected
\* row, a confirmed delete sends one delete-by-id of the selected row; a
\* mutating statement of a page is only ever sent by one of these two
\* handlers, and the handler that reports the failure of such a statement
\* sends nothing more.
C15_OneStatementPerAction ==
  [][/\ (handleSubmit /\ FailingFields(page.table, page.formData) = {})
          => /\ last'.via = "page" /\ last'.op \in {"insert", "update"}
             /\ last'.op = (IF page.selected = NullId THEN "insert" ELSE "update")
             /\ last'.op = "update" => last'.id = page.selected
             /\ Cardinality(ChangedRows(Store, Store', page.table)) <= 1
             /\ \A t \in Tables \ {page.table} : Store'[t] = Store[t]
     /\ (confirmDelete /\ page.selected # NullId)
          => /\ last'.via = "page" /\ last'.op = "delete" /\ last'.id = page.selected
             /\ ChangedRows(Store, Store', page.table) \subseteq {page.selected}
     /\ (last'.via = "page" /\ last'.op \in MutatingOps /\ ~(PageWaits /\ last.op \in MutatingOps))
          => (last = NoStatement /\ (handleSubmit \/ confirmDelete))
     /\ (PageWaits /\ last.op \in MutatingOps /\ last.outcome # "ok" /\ page'.toast # page.toast)
          => (last' = NoStatement /\ UNCHANGED storeVars)]_vars

\* a save and a delete have failed and their handlers have finished
C15_Witness ==
  /\ last = NoStatement
  /\ page.toast \in {"error.message", "Failed to delete"}
  /\ ~page.submitting

\* C16: a page or the dashboard sends a statement to the store only when
\* useAuth has finished loading and reports a user.
C16_NoRequestBeforeAuthenticated ==
  [][(~PageWaits /\ last'.via = "page") => (page'.auth = "user" /\ page'.user # NoUser)]_vars

\* C17: when all of the dashboard's queries succeeded, the stats it displays
\* are the numbers of rows of cases, evidence and suspects, the number of
\* cases whose status is not 'closed' and the number of lab reports whose
\* status is 'pending'.
C17_DashboardCounts ==
  [][(PageWaits /\ last.op = "dashboard" /\ last.outcome = "ok" /\ last' = NoStatement)
     => (/\ page'.auth = "user"
         /\ page'.stats.totalCases = Cardinality(DOMAIN cases)
         /\ page'.stats.totalEvidence = Cardinality(DOMAIN evidence)
         /\ page'.stats.totalSuspects = Cardinality(DOMAIN suspects)
         /\ page'.stats.activeCases = Cardinality({i \in DOMAIN cases : cases[i].status # "closed"})
         /\ page'.stats.pendingLabReports =
              Cardinality({i \in DOMAIN lab_reports : lab_reports[i].status = "pending"}))]_vars

\* the dashboard shows a closed case, its evidence and a pending lab report
C17_Witness ==
  /\ page.table = "dashboard" /\ last = NoStatement
  /\ \E i \in DOMAIN cases : cases[i].status = "closed"
  /\ page.stats.totalCases = 1 /\ page.stats.activeCases = 0
  /\ page.stats.totalEvidence = 1 /\ page.stats.pendingLabReports = 1

\* C18: an insert of a case that leaves date_opened out creates a row whose
\* date_opened is the current date; status and priority are stored as given,
\* and as 'open' and 'medium' when they are left out.
C18_CaseDefaults ==
  [][\A uid \in DOMAIN users, p \in CaseBodies :
       (ApiInsert(uid, "cases", [p EXCEPT !.user_id = uid]) /\ last'.outcome = "ok")
         => LET id == last'.id
            IN /\ id \in DOMAIN cases' /\ id \notin DOMAIN cases
               /\ cases'[id].title = p.title
               /\ cases'[id].status = (IF p.status = Absent THEN "open" ELSE p.status)
               /\ cases'[id].priority = (IF p.priority = Absent THEN "medium" ELSE p.priority)
               /\ p.date_opened = AbsentTime => stamps'.cases[id].date_opened = now]_vars

\* on day 1 a case was created from a body without status, priority and
\* date_opened
C18_Witness ==
  /\ last.op = "insert" /\ last.table = "cases" /\ last.outcome = "ok"
  /\ now = 1
  /\ cases[last.id].status = "open" /\ cases[last.id].priority = "medium"
  /\ stamps.cases[last.id].date_opened = 1

\* C19: when the edit form opened by handleEdit for a row is submitted, the
\* store receives an update-by-id of that row and never an insert.
C19_EditFormUpdatesItsRow ==
  [][(handleSubmit /\ page.formRow # NullId /\ FailingFields(page.table, page.formData) = {})
     => (last'.op = "update" /\ last'.id = page.formRow)]_vars

C21_UnchangedSaveKeepsRow ==
  [][(/\ handleSubmit
      /\ page.selected # NullId /\ page.selected = page.formRow
      /\ page.selected \in DOMAIN Store[page.table]
      /\ page.formData = EditFormData(page.table, Store[page.table][page.selected]))
     => Store'[page.table][page.selected] = Store[page.table][page.selected]]_vars

\* C22: on an entity page, once no request is in flight and no other client
\* writes, the displayed list is the table's current rows, in whatever order
\* the responses of the refetches were handled.
C22_ListIsCurrent ==
  (page.table \in Tables /\ Idle /\ page.pending = {})
    => page.list = Select(Store, page.user, page.table)

C24_ActiveWithinTotal ==
  page.table = "dashboard" => page.stats["activeCases"] <= page.stats["totalCases"]

\* C25: deleting an officer never deletes a case: every case that referenced
\* the officer stays, with lead_officer_id NULL, every other case stays as it
\* was; and in every state each non-null lead_officer_id is the id of an
\* existing officer.
C25_OfficerDeleteKeepsCases ==
  /\ [](\A c \in DOMAIN cases :
          cases[c].lead_officer_id # NullId => cases[c].lead_officer_id \in DOMAIN officers)
  /\ [][(Idle /\ last'.op = "delete" /\ last'.table = "officers")
        => LET hit == IF last'.count = 1 THEN {last'.id} ELSE {}
           IN /\ DOMAIN cases' = DOMAIN cases
              /\ \A c \in DOMAIN cases :
                   cases'[c] = IF cases[c].lead_officer_id \in hit
                               THEN [cases[c] EXCEPT !.lead_officer_id = NullId]
                               ELSE cases[c]]_vars

\* an officer has just been deleted and a case is there without lead officer
C25_Witness ==
  /\ last.op = "delete" /\ last.table = "officers" /\ last.count = 1
  /\ \E c \in DOMAIN cases : cases[c].lead_officer_id = NullId

\* ------------------------------------------------- enumerated form fields
\* the z.enum fields of each page's schema
SchemaEnums(t) ==
  CASE t = "cases" -> {<<"status", caseSchema_status>>, <<"priority", caseSchema_priority>>}
    [] t = "suspects" -> {<<"status", suspectSchema_status>>}
    [] t = "evidence" -> {<<"type", evidenceSchema_type>>, <<"status", evidenceSchema_status>>}
    [] t = "lab_reports" -> {<<"status", labReportSchema_status>>}

\* what the form's enumerated fields are set to: every value of the schema
\* and of the check constraint, and one of neither; with them the required
\* title and the parent offered by the select
EnumFormInputs(t) ==
  UNION {{<<f[1], v>> : v \in f[2] \cup {"archived"}} : f \in EnumFields(t) \cup SchemaEnums(t)}
  \cup (IF t = "cases" THEN {<<"title", "Burglary">>}
        ELSE IF t = "lab_reports" THEN {<<"evidence_id", c>> : c \in page.options}
        ELSE {<<"case_id", c>> : c \in page.options})

\* an account fills the add form of a page with enumerated values and saves
EnumFormNext ==
  \/ \E meta \in [full_name : FullNameInputs] : Signup(meta)
  \/ \E uid \in DOMAIN users, t \in {"cases", "evidence"} :
       ApiInsert(uid, t, [PlainFields(t) EXCEPT !.user_id = uid])
  \/ ReturnResponse
  \/ \E u \in DOMAIN users, t \in EnumTables : OpenPage(u, t)
  \/ fetch_resume
  \/ handleAdd
  \/ PageOpen /\ \E i \in EnumFormInputs(page.table) : setFormData(i[1], i[2])
  \/ handleSubmit
  \/ handleSubmit_resume
  \/ toast_dismiss

EnumFormSpec == Init /\ [][EnumFormNext]_vars

\* C26: for case status and priority, suspect status, evidence type and
\* status and lab report status, the values the page's schema accepts are
\* exactly the non-null values the table's check constraint accepts, and no
\* save of a validated form is rejected by a check constraint.
C26_SchemaMatchesCheck ==
  /\ \A t \in EnumTables :
       /\ {f[1] : f \in SchemaEnums(t)} = {f[1] : f \in EnumFields(t)}
       /\ \A f \in SchemaEnums(t), g \in EnumFields(t) : f[1] = g[1] => f[2] = g[2]
  /\ (last.via = "page" /\ last.op \in {"insert", "update"}) => last.outcome # "check_violation"

\* a case whose status is neither the form's initial value nor the column's
\* default has been saved from the form
C26_Witness ==
  /\ last.via = "page" /\ last.op = "insert" /\ last.table = "cases" /\ last.outcome = "ok"
  /\ last.id \in DOMAIN cases
  /\ cases[last.id].status = "under_investigation"
  /\ cases[last.id].priority = "critical"

\* C27: when the store request of a save fails, the failure message is shown,
\* the modal and the entered form data are left as they are, submitting
\* becomes false and nothing is sent; when it succeeds the modal is closed and
\* one refetch of the list is sent.
C27_SaveOutcomeHandling ==
  [][(PageWaits /\ last.op \in {"insert", "update"} /\ last'.op # last.op)
     => IF last.outcome # "ok"
        THEN /\ page'.toast = "error.message"
             /\ page'.isModalOpen = page.isModalOpen
             /\ page'.formData = page.formData
             /\ page'.selected = page.selected
             /\ ~page'.submitting
             /\ last' = NoStatement
        ELSE /\ ~page'.isModalOpen
             /\ ~page'.submitting
             /\ last' = FetchStatement(page.user, page.table)]_vars

\* a failed save has been reported: the form is still open with the rank the
\* user entered, and the save can be sent again
C27_Witness ==
  /\ page.table = "officers" /\ page.toast = "error.message"
  /\ page.isModalOpen /\ ~page.submitting
  /\ page.formData.rank = "Chief"
  /\ Idle

\* C28: MainLayout renders its children only when loading is false and user
\* is non-null, and redirects to /auth when loading is false and user is
\* null; Index redirects to /dashboard exactly when loading is false and user
\* is non-null.
C28_RenderingRules ==
  /\ page.table \in Routes =>
       /\ MainLayout = "children" => (~useAuth.loading /\ useAuth.user # NoUser)
       /\ (~useAuth.loading /\ useAuth.user = NoUser) => MainLayout = "Navigate /auth"
  /\ page.table = "index" =>
       (Index = "Navigate /dashboard" <=> (~useAuth.loading /\ useAuth.user # NoUser))

\* a guarded route opened without a session, once useAuth has resolved
C28_Witness ==
  /\ page.table \in Tables
  /\ ~useAuth.loading /\ useAuth.user = NoUser
  /\ MainLayout = "Navigate /auth"
  /\ DOMAIN users # {}

\* a save sent by the page's form is waiting for its response or for its
\* response to be handled
SaveInFlight == last.via = "page" /\ last.op \in {"insert", "update"}

\* C29: on each entity page at most one save from the form is in flight:
\* submitting is true exactly from the sending of a validated save until its
\* response is handled, the submit control is disabled whenever submitting is
\* true, and a save is sent only while none is in flight.
C29_OneSaveInFlight ==
  /\ [](page.table \in Tables => (page.submitting <=> SaveInFlight))
  /\ [](page.submitting => SubmitDisabled)
  /\ [][(last'.via = "page" /\ last'.op \in {"insert", "update"} /\ last'.op # last.op)
        => (~SaveInFlight /\ ~page.submitting /\ page'.submitting)]_vars

\* the form's save is in flight and its submit control is disabled
C29_Witness ==
  /\ SaveInFlight /\ last.op = "update"
  /\ page.submitting /\ SubmitDisabled /\ page.isModalOpen

\* ------------------------------------------------- columns outside the forms
\* the body f with the keys of extra as well
WithKeys(f, extra) ==
  [c \in DOMAIN f \cup DOMAIN extra |-> IF c \in DOMAIN extra THEN extra[c] ELSE f[c]]

\* inserts sent to the REST interface that fill the columns no form shows: a
\* case with a lead officer and a date_closed, evidence with a chain of custody
FrameBodies(t) ==
  CASE t = "officers" -> {PlainFields(t)}
    [] t = "cases" -> {WithKeys([PlainFields(t) EXCEPT !.lead_officer_id = Latest(officers),
                                                       !.title = "Arson", !.status = "open"],
                                [date_closed |-> MaxTime + 1])}
    [] t = "evidence" -> {WithKeys([PlainFields(t) EXCEPT !.status = "in_storage"],
                                   [chain_of_custody |-> "Sealed"])}

FrameTables == {"officers", "cases", "evidence"}

\* rows with such columns are edited from the Cases and the Evidence page as
\* time passes
FrameNext ==
  \/ \E meta \in [full_name : FullNameInputs] : Signup(meta)
  \/ Tick
  \/ \E t \in FrameTables, uid \in DOMAIN users : \E f \in FrameBodies(t) :
       ApiInsert(uid, t, [f EXCEPT !.user_id = uid])
  \/ ReturnResponse
  \/ \E u \in DOMAIN users, t \in {"cases", "evidence"} : OpenPage(u, t)
  \/ fetch_resume
  \/ \E item \in DOMAIN page.list : handleEdit(item)
  \/ PageOpen /\ \E i \in FormInputs(page.table) : setFormData(i[1], i[2])
  \/ handleSubmit
  \/ handleSubmit_resume
  \/ toast_dismiss

FrameSpec == Init /\ [][FrameNext]_vars

\* the columns kept in stamps that no form shows and no trigger writes
OutsideForms == {"created_at", "date_closed", "chain_of_custody"}

\* C30: an update sent by an entity page changes only the row it names and in
\* it only fields of the page's form, plus updated_at: the ids of the table,
\* created_at, the case's date_closed and lead_officer_id, the evidence's
\* chain_of_custody, every other row and every other table stay as they were.
C30_UpdateChangesFormFieldsOnly ==
  [][(last'.via = "page" /\ last'.op = "update" /\ last'.op # last.op)
     => LET t == page.table
        IN /\ DOMAIN Store'[t] = DOMAIN Store[t]
           /\ \A i \in DOMAIN Store[t] :
                /\ \A c \in Columns(t) \ FormFields(t) : Store'[t][i][c] = Store[t][i][c]
                /\ \A c \in DOMAIN stamps[t][i] \cap OutsideForms :
                     stamps'[t][i][c] = stamps[t][i][c]
                /\ i # last'.id => (Store'[t][i] = Store[t][i] /\ stamps'[t][i] = stamps[t][i])
           /\ \A u \in Tables \ {t} : Store'[u] = Store[u] /\ stamps'[u] = stamps[u]
           /\ profiles' = profiles /\ users' = users]_vars

\* a case with a lead officer and a date_closed has been updated from the
\* Cases page, later than it was created
C30_Witness ==
  /\ last.via = "page" /\ last.op = "update" /\ last.table = "cases" /\ last.count = 1
  /\ last.id \in DOMAIN cases
  /\ cases[last.id].lead_officer_id \in DOMAIN officers
  /\ stamps["cases"][last.id].date_closed = MaxTime + 1
  /\ stamps["cases"][last.id].updated_at > stamps["cases"][last.id].created_at
  /\ cases[last.id].title = "Burglary" /\ cases[last.id].status = "closed"

====
